---- MODULE Spec2Model ----
(***************************************************************************)
(* The DariX tree-walking interpreter (cpp/src/interpreter.cpp), its       *)
(* Environment chain (cpp/src/environment.cpp) and its runtime objects     *)
(* (cpp/src/object.cpp), as a state machine.                               *)
(*                                                                         *)
(* interpret() is a loop over the top-level statements; one step of the    *)
(* machine is one iteration of that loop.  execute()/evaluate() are the    *)
(* recursive walk of the source, written as recursive operators over an    *)
(* interpreter state record.  A C++ exception in flight is the field       *)
(* `thrown` of that record (the what() of the std::runtime_error).         *)
(***************************************************************************)
EXTENDS Integers, Sequences, FiniteSets, TLC

\* ------------------------------------------------------------------ bounds
MaxLoopIter == 4
MaxDepth == 12
MaxFibArg == 2
MaxParams == 2
MaxEnvs == 4
MaxOps == 5

\* ---------------------------------------------------------- runtime values
\* include/object.h: one record shape per ObjectType
makeInteger(n) == [t |-> "INTEGER", i |-> n]
makeFloat(n, d) == [t |-> "FLOAT", num |-> n, den |-> d]
makeString(str) == [t |-> "STRING", s |-> str]
makeBoolean(b) == [t |-> "BOOLEAN", b |-> b]
makeNull == [t |-> "NULL_OBJ"]
\* Array, Map and Instance objects live in the heap and are held by reference
ArrayRef(r) == [t |-> "ARRAY", ref |-> r]
MapRef(r) == [t |-> "MAP", ref |-> r]
InstanceRef(r) == [t |-> "INSTANCE", ref |-> r]
\* FunctionObject(name, callable, arity).  declEnv is history only: the
\* environment that was current when the value was made; no operator that
\* models code reads it.
makeFunction(name, callable, arity, declEnv) ==
    [t |-> "FUNCTION", name |-> name, callable |-> callable, arity |-> arity,
     declEnv |-> declEnv]
makeClass(name, methods) == [t |-> "CLASS", name |-> name, methods |-> methods]
\* a default-constructed std::shared_ptr<Object> (lastResult_ before any write)
NullPtr == [t |-> "nullptr"]

NoThrow == ""
ReturnSignal == "return"
OperandsMsg == "Operands must be numbers."
OperandMsg == "Operand must be a number."

\* ------------------------------------------------------------------- AST
\* include/ast.h; an absent std::unique_ptr<Expr>/<Stmt> is NoNode
NoNode == [k |-> "none"]
LiteralExpr(chars) == [k |-> "Literal", value_ |-> chars]
NumberExpr(n, d) == [k |-> "Number", num |-> n, den |-> d]
StringExpr(str) == [k |-> "String", value_ |-> str]
BoolExpr(b) == [k |-> "Bool", value_ |-> b]
NullExpr == [k |-> "Null"]
VariableExpr(name) == [k |-> "Variable", name_ |-> name]
BinaryExpr(l, op, r) == [k |-> "Binary", left_ |-> l, op_ |-> op, right_ |-> r]
UnaryExpr(op, r) == [k |-> "Unary", op_ |-> op, right_ |-> r]
CallExpr(callee, args) == [k |-> "Call", callee_ |-> callee, arguments_ |-> args]
ArrayExpr(elems) == [k |-> "Array", elements_ |-> elems]
MapExpr(pairs) == [k |-> "Map", pairs_ |-> pairs]
MemberExpr(obj, prop) == [k |-> "Member", object_ |-> obj, property_ |-> prop]
IndexExpr(arr, idx) == [k |-> "Index", array_ |-> arr, index_ |-> idx]
AssignExpr(target, value) == [k |-> "Assign", target_ |-> target, value_ |-> value]

ExprStmt(e) == [k |-> "ExprStmt", expression_ |-> e]
VarDecl(name, init) == [k |-> "VarDecl", name_ |-> name, initializer_ |-> init]
FuncDecl(name, params, body) ==
    [k |-> "FuncDecl", name_ |-> name, params_ |-> params, body_ |-> body]
ClassDecl(name, methods) == [k |-> "ClassDecl", name_ |-> name, methods_ |-> methods]
IfStmt(c, th, el) ==
    [k |-> "If", condition_ |-> c, thenBranch_ |-> th, elseBranch_ |-> el]
WhileStmt(c, body) == [k |-> "While", condition_ |-> c, body_ |-> body]
ForStmt(init, c, incr, body) ==
    [k |-> "For", initializer_ |-> init, condition_ |-> c, increment_ |-> incr,
     body_ |-> body]
ReturnStmt(v) == [k |-> "Return", value_ |-> v]
TryStmt(tryBody, catchVar, catchBody, finallyBody) ==
    [k |-> "Try", tryBody_ |-> tryBody, catchVar_ |-> catchVar,
     catchBody_ |-> catchBody, finallyBody_ |-> finallyBody]
BlockStmt(stmts) == [k |-> "Block", statements_ |-> stmts]

\* ------------------------------------------------------------ Environment
\* class Environment: values_ (name -> value) and enclosing_ (0 is the null
\* pointer).  Environments are heap objects: `envs` is the sequence of all
\* Environments made so far and an Environment pointer is an index into it.
EmptyMap == [x \in {} |-> makeNull]
Put(m, key, v) == [x \in (DOMAIN m) \cup {key} |-> IF x = key THEN v ELSE m[x]]

NewEnvironment(enclosing) == [values_ |-> EmptyMap, enclosing_ |-> enclosing]

define(envs, e, name, value) ==
    [envs EXCEPT ![e].values_ = Put(@, name, value)]

\* a plausible slip: the walk goes on to the outermost frame defining the name
RECURSIVE get_outermost(_, _, _)
get_outermost(envs, e, name) ==
    LET outer == IF envs[e].enclosing_ # 0
                 THEN get_outermost(envs, envs[e].enclosing_, name) ELSE makeNull
    IN IF outer # makeNull THEN outer
       ELSE IF name \in DOMAIN envs[e].values_ THEN envs[e].values_[name]
       ELSE makeNull

RECURSIVE get(_, _, _)
get(envs, e, name) ==
    IF name \in DOMAIN envs[e].values_ THEN envs[e].values_[name]
    ELSE IF envs[e].enclosing_ # 0 THEN get(envs, envs[e].enclosing_, name)
    ELSE makeNull

\* a plausible slip: the walk does not stop at the first frame defining the name
RECURSIVE assign_all(_, _, _, _)
assign_all(envs, e, name, value) ==
    LET here == IF name \in DOMAIN envs[e].values_
                THEN [envs EXCEPT ![e].values_[name] = value] ELSE envs
    IN IF envs[e].enclosing_ # 0
       THEN assign_all(here, envs[e].enclosing_, name, value)
       ELSE IF name \in DOMAIN envs[e].values_ THEN here
            ELSE define(here, e, name, value)

RECURSIVE assign(_, _, _, _)
assign(envs, e, name, value) ==
    IF name \in DOMAIN envs[e].values_
    THEN [envs EXCEPT ![e].values_[name] = value]
    ELSE IF envs[e].enclosing_ # 0
         THEN assign(envs, envs[e].enclosing_, name, value)
         ELSE define(envs, e, name, value)

\* ------------------------------------------------------------- heap objects
ArrayObject(elems) == [t |-> "ARRAY", elements_ |-> elems]
MapObject(m) == [t |-> "MAP", map_ |-> m]
InstanceObject(cls) == [t |-> "INSTANCE", class_ |-> cls, fields_ |-> EmptyMap]

\* ---------------------------------------------------------------- numbers
\* a finite double is an exact fraction num/den in lowest terms with den > 0;
\* den = 0 is a non-finite double (num > 0: +inf, num < 0: -inf, num = 0: NaN)
Abs(n) == IF n < 0 THEN -n ELSE n
Sign(n) == IF n < 0 THEN -1 ELSE IF n > 0 THEN 1 ELSE 0
RECURSIVE Gcd(_, _)
Gcd(a, b) == IF b = 0 THEN a ELSE Gcd(b, a % b)
Frac(n, d) ==
    IF d = 0 THEN <<Sign(n), 0>>
    ELSE LET g == Gcd(Abs(n), Abs(d))
         IN <<Sign(d) * (n \div g), Abs(d) \div g>>
\* the conversions of evaluateBinary: FloatObject::value(), or the long long of
\* an IntegerObject widened to double.  The static_cast<IntegerObject*> of an
\* object of another type reads whatever lies at that offset: `garbage`.
toDouble(v, garbage) ==
    IF v.t = "FLOAT" THEN <<v.num, v.den>>
    ELSE IF v.t = "INTEGER" THEN <<v.i, 1>>
    ELSE <<garbage, 1>>
\* a result with an integral value narrowed to Integer
FloatOf_narrow(f) == IF f[2] = 1 THEN makeInteger(f[1]) ELSE makeFloat(f[1], f[2])
FloatOf(f) == makeFloat(f[1], f[2])
FAdd(a, b) ==
    IF a[2] = 0 \/ b[2] = 0
    THEN (IF a[2] = 0 /\ b[2] = 0 THEN (IF a[1] = b[1] THEN a ELSE <<0, 0>>)
          ELSE IF a[2] = 0 THEN a ELSE b)
    ELSE Frac(a[1] * b[2] + b[1] * a[2], a[2] * b[2])
FNeg(a) == <<-a[1], a[2]>>
FSub(a, b) == FAdd(a, FNeg(b))
FMul(a, b) ==
    IF a[2] = 0 \/ b[2] = 0 THEN <<Sign(a[1]) * Sign(b[1]), 0>>
    ELSE Frac(a[1] * b[1], a[2] * b[2])
FDiv(a, b) ==
    IF a[2] = 0 THEN (IF b[2] = 0 THEN <<0, 0>>
                      ELSE <<a[1] * (IF b[1] < 0 THEN -1 ELSE 1), 0>>)
    ELSE IF b[2] = 0 THEN (IF b[1] = 0 THEN <<0, 0>> ELSE <<0, 1>>)
    ELSE IF b[1] = 0 THEN <<Sign(a[1]), 0>>
    ELSE Frac(a[1] * b[2], a[2] * b[1])
FLess(a, b) ==
    IF (a[2] = 0 /\ a[1] = 0) \/ (b[2] = 0 /\ b[1] = 0) THEN FALSE
    ELSE IF a[2] = 0 THEN a[1] < 0 /\ ~(b[2] = 0 /\ b[1] < 0)
    ELSE IF b[2] = 0 THEN b[1] > 0
    ELSE a[1] * b[2] < b[1] * a[2]
\* C++ integer % truncates toward zero
CMod(a, b) == Sign(a) * (Abs(a) % Abs(b))

\* std::stoll / std::stod on the characters of a lexeme (a sequence of
\* one-character strings): the longest leading run of digits
Digits == <<"0", "1", "2", "3", "4", "5", "6", "7", "8", "9">>
IsDigit(c) == \E d \in 1..10 : Digits[d] = c
DigitVal(c) == (CHOOSE d \in 1..10 : Digits[d] = c) - 1
RECURSIVE DigitRun(_, _)
DigitRun(chars, i) ==
    IF i <= Len(chars) /\ IsDigit(chars[i]) THEN DigitRun(chars, i + 1) ELSE i - 1
RECURSIVE DigitsValue(_, _, _)
DigitsValue(chars, from, to) ==
    IF to < from THEN 0
    ELSE DigitsValue(chars, from, to - 1) * 10 + DigitVal(chars[to])
RECURSIVE Pow10(_)
Pow10(n) == IF n = 0 THEN 1 ELSE 10 * Pow10(n - 1)
RECURSIVE Join(_)
Join(chars) == IF chars = <<>> THEN "" ELSE chars[1] \o Join(Tail(chars))
HasDot(chars) == \E i \in 1..Len(chars) : chars[i] = "."
\* [ok, v]: ok = FALSE is std::invalid_argument
stoll(chars) ==
    LET n == DigitRun(chars, 1)
    IN [ok |-> n >= 1, v |-> DigitsValue(chars, 1, n)]
stod(chars) ==
    LET n == DigitRun(chars, 1)
        dot == n + 1 <= Len(chars) /\ chars[n + 1] = "."
        m == IF dot THEN DigitRun(chars, n + 2) ELSE n
        fd == IF dot THEN m - (n + 1) ELSE 0
    IN [ok |-> n >= 1 \/ fd >= 1,
        v |-> Frac(DigitsValue(chars, 1, n) * Pow10(fd)
                   + (IF fd >= 1 THEN DigitsValue(chars, n + 2, m) ELSE 0),
                   Pow10(fd))]

\* ------------------------------------------------- Object::toString/equals
RECURSIVE toString(_, _)
toString(v, heap) ==
    CASE v.t = "INTEGER" -> ToString(v.i)
      [] v.t = "FLOAT" -> "<float " \o ToString(v.num) \o "/" \o ToString(v.den) \o ">"
      [] v.t = "STRING" -> "\"" \o v.s \o "\""
      [] v.t = "BOOLEAN" -> IF v.b THEN "true" ELSE "false"
      [] v.t = "NULL_OBJ" -> "null"
      [] v.t = "ARRAY" ->
           LET el == heap[v.ref].elements_
               RECURSIVE items(_)
               items(i) == IF i > Len(el) THEN ""
                           ELSE (IF i > 1 THEN ", " ELSE "")
                                \o toString(el[i], heap) \o items(i + 1)
           IN "[" \o items(1) \o "]"
      [] v.t = "MAP" -> "{map}"
      [] v.t = "FUNCTION" -> "<function " \o v.name \o ">"
      [] v.t = "CLASS" -> "<class " \o v.name \o ">"
      [] v.t = "INSTANCE" -> "<" \o heap[v.ref].class_.name \o " instance>"

RECURSIVE equals(_, _, _)
equals(a, b, heap) ==
    CASE a.t = "INTEGER" -> b.t = "INTEGER" /\ a.i = b.i
      [] a.t = "FLOAT" -> b.t = "FLOAT" /\ ~(a.den = 0 /\ a.num = 0)
                          /\ a.num = b.num /\ a.den = b.den
      [] a.t = "STRING" -> b.t = "STRING" /\ a.s = b.s
      [] a.t = "BOOLEAN" -> b.t = "BOOLEAN" /\ a.b = b.b
      [] a.t = "NULL_OBJ" -> b.t = "NULL_OBJ"
      [] a.t = "ARRAY" ->
           /\ b.t = "ARRAY"
           /\ Len(heap[a.ref].elements_) = Len(heap[b.ref].elements_)
           /\ \A i \in 1..Len(heap[a.ref].elements_) :
                equals(heap[a.ref].elements_[i], heap[b.ref].elements_[i], heap)
      [] a.t = "MAP" ->
           /\ b.t = "MAP"
           /\ Cardinality(DOMAIN heap[a.ref].map_) = Cardinality(DOMAIN heap[b.ref].map_)
           /\ \A key \in DOMAIN heap[a.ref].map_ :
                /\ key \in DOMAIN heap[b.ref].map_
                /\ equals(heap[a.ref].map_[key], heap[b.ref].map_[key], heap)
      [] a.t = "FUNCTION" -> b.t = "FUNCTION" /\ a.name = b.name
      [] a.t = "CLASS" -> b.t = "CLASS" /\ a.name = b.name
      [] a.t = "INSTANCE" -> b.t = "INSTANCE" /\ a.ref = b.ref

\* two Instances compared by their class and fields
isEqual_byFields(a, b, heap) ==
    IF a.t # b.t THEN FALSE
    ELSE IF a.t = "INSTANCE" THEN heap[a.ref] = heap[b.ref]
    ELSE equals(a, b, heap)

isEqual(a, b, heap) == IF a.t # b.t THEN FALSE ELSE equals(a, b, heap)

\* zero and the empty String taken for false as well
isTruthy_zeroFalsy(v) ==
    IF v.t = "NULL_OBJ" THEN FALSE
    ELSE IF v.t = "BOOLEAN" THEN v.b
    ELSE IF v.t = "INTEGER" THEN v.i # 0
    ELSE IF v.t = "FLOAT" THEN v.num # 0
    ELSE IF v.t = "STRING" THEN v.s # ""
    ELSE TRUE

isTruthy(v) ==
    IF v.t = "NULL_OBJ" THEN FALSE
    ELSE IF v.t = "BOOLEAN" THEN v.b
    ELSE TRUE

\* ------------------------------------------------------- interpreter state
\* The record threaded through execute()/evaluate():
\*   envs, environment_, heap, lastResult_, out   the interpreter and its heap
\*   thrown    the exception in flight (NoThrow: none); abort: the process
\*             died or the walk ran past a bound of the model (not catchable)
\*   val, vals the value(s) an evaluate call returned
\*   trace, inv, nextInv, tryDepth, nextTry, depth   history: what ran, in
\*             which invocation of a user function, inside how many Try
\*             statements of that invocation
Ret(s, v) == [s EXCEPT !.val = v]
Log(s, ev) == [s EXCEPT !.trace = Append(@, ev)]
Throw(s, msg) == [s EXCEPT !.thrown = msg]
Raise(s, msg) ==
    Throw(Log(s, [e |-> "raise", msg |-> msg, inv |-> s.inv,
                  tryDepth |-> s.tryDepth]), msg)
Abort(s, why) == [s EXCEPT !.thrown = "<abort>", !.abort = why]
Catchable(s) == s.thrown # NoThrow /\ s.abort = ""

checkNumberOperand(operand) ==
    IF operand.t \in {"INTEGER", "FLOAT"} THEN NoThrow ELSE OperandMsg

checkNumberOperands(left, right) ==
    IF left.t \in {"INTEGER", "FLOAT"} /\ right.t \in {"INTEGER", "FLOAT"}
    THEN NoThrow ELSE OperandsMsg

\* the switch of evaluateBinary on two evaluated operands:
\* [thrown, abort, val]; falling out of the switch returns makeNull()
Val(v) == [thrown |-> NoThrow, abort |-> "", val |-> v]
Err(msg) == [thrown |-> msg, abort |-> "", val |-> makeNull]
binaryOp(op, left, right, heap, garbage) ==
    LET bothInt == left.t = "INTEGER" /\ right.t = "INTEGER"
        l == toDouble(left, garbage)
        r == toDouble(right, garbage)
        chk == checkNumberOperands(left, right)
    IN CASE op = "PLUS" ->
              IF bothInt THEN Val(makeInteger(left.i + right.i))
              ELSE IF left.t = "FLOAT" \/ right.t = "FLOAT" THEN Val(FloatOf(FAdd(l, r)))
              ELSE IF left.t = "STRING" /\ right.t = "STRING"
                   THEN Val(makeString(left.s \o right.s))
              ELSE Val(makeNull)
         [] op = "MINUS" ->
              IF chk # NoThrow THEN Err(chk)
              ELSE IF bothInt THEN Val(makeInteger(left.i - right.i))
              ELSE Val(FloatOf(FSub(l, r)))
         [] op = "MULTIPLY" ->
              IF chk # NoThrow THEN Err(chk)
              ELSE IF bothInt THEN Val(makeInteger(left.i * right.i))
              ELSE Val(FloatOf(FMul(l, r)))
         [] op = "DIVIDE" ->
              IF chk # NoThrow THEN Err(chk) ELSE Val(FloatOf(FDiv(l, r)))
         [] op = "MODULO" ->
              IF chk # NoThrow THEN Err(chk)
              ELSE IF bothInt
                   THEN (IF right.i = 0
                         THEN [thrown |-> "<abort>", abort |-> "SIGFPE", val |-> makeNull]
                         ELSE Val(makeInteger(CMod(left.i, right.i))))
              ELSE Val(makeNull)
         [] op = "EQUAL_EQUAL" -> Val(makeBoolean(isEqual(left, right, heap)))
         [] op = "BANG_EQUAL" -> Val(makeBoolean(~isEqual(left, right, heap)))
         [] op = "LESS" ->
              IF chk # NoThrow THEN Err(chk)
              ELSE IF bothInt THEN Val(makeBoolean(left.i < right.i))
              ELSE Val(makeBoolean(FLess(l, r)))
         [] op \in {"LESS_EQUAL", "GREATER", "GREATER_EQUAL"} ->
              IF chk # NoThrow THEN Err(chk) ELSE Val(makeNull)
         [] op = "AND" -> Val(makeBoolean(isTruthy(left) /\ isTruthy(right)))
         [] op = "OR" -> Val(makeBoolean(isTruthy(left) \/ isTruthy(right)))
         [] OTHER -> Val(makeNull)

unaryOp(op, right) ==
    CASE op = "MINUS" ->
           IF checkNumberOperand(right) # NoThrow THEN Err(checkNumberOperand(right))
           ELSE IF right.t = "INTEGER" THEN Val(makeInteger(-right.i))
           ELSE Val(makeFloat(-right.num, right.den))
      [] op = "BANG" -> Val(makeBoolean(~isTruthy(right)))
      [] OTHER -> Val(makeNull)

\* ------------------------------------------------------------- builtins
BuiltinNames == <<"print", "len", "type", "abs", "str", "int", "float">>
BuiltinArity(name) == IF name = "print" THEN 0 ELSE 1
\* the characters of the runtime strings the programs of this model hand to
\* int()/float(); any other string has no leading digit
CharsOf(str) ==
    CASE str = "7" -> <<"7">>
      [] str = "12" -> <<"1", "2">>
      [] str = "1.5" -> <<"1", ".", "5">>
      [] OTHER -> <<"x">>
typeName(v) ==
    CASE v.t = "INTEGER" -> "int"
      [] v.t = "FLOAT" -> "float"
      [] v.t = "STRING" -> "string"
      [] v.t = "BOOLEAN" -> "bool"
      [] v.t = "ARRAY" -> "array"
      [] v.t = "MAP" -> "map"
      [] v.t = "FUNCTION" -> "function"
      [] v.t = "CLASS" -> "class"
      [] v.t = "INSTANCE" -> "instance"
      [] OTHER -> "null"
RECURSIVE printLine(_, _, _)
printLine(args, i, heap) ==
    IF i > Len(args) THEN ""
    ELSE (IF i > 1 THEN " " ELSE "") \o toString(args[i], heap)
         \o printLine(args, i + 1, heap)
nativeCall(name, args, s) ==
    LET obj == args[1]
    IN CASE name = "print" ->
              Ret([s EXCEPT !.out = Append(@, printLine(args, 1, s.heap))], makeNull)
         [] name = "len" ->
              Ret(s, IF obj.t = "STRING" THEN makeInteger(Len(obj.s))
                     ELSE IF obj.t = "ARRAY"
                          THEN makeInteger(Len(s.heap[obj.ref].elements_))
                     ELSE makeInteger(0))
         [] name = "type" -> Ret(s, makeString(typeName(obj)))
         [] name = "abs" ->
              Ret(s, IF obj.t = "INTEGER" THEN makeInteger(Abs(obj.i))
                     ELSE IF obj.t = "FLOAT" THEN makeFloat(Abs(obj.num), obj.den)
                     ELSE makeNull)
         [] name = "str" -> Ret(s, makeString(toString(obj, s.heap)))
         [] name = "int" ->
              Ret(s, IF obj.t = "INTEGER" THEN obj
                     ELSE IF obj.t = "FLOAT"
                          THEN (IF obj.den = 0 THEN makeInteger(s.garbage)
                                ELSE makeInteger(Sign(obj.num) * (Abs(obj.num) \div obj.den)))
                     ELSE IF obj.t = "STRING" /\ stoll(CharsOf(obj.s)).ok
                          THEN makeInteger(stoll(CharsOf(obj.s)).v)
                     ELSE makeInteger(0))
         [] name = "float" ->
              Ret(s, IF obj.t = "FLOAT" THEN obj
                     ELSE IF obj.t = "INTEGER" THEN makeFloat(obj.i, 1)
                     ELSE IF obj.t = "STRING" /\ stod(CharsOf(obj.s)).ok
                          THEN FloatOf(stod(CharsOf(obj.s)).v)
                     ELSE makeFloat(0, 1))

RECURSIVE defineBuiltinsFrom(_, _)
defineBuiltinsFrom(envs, i) ==
    IF i > Len(BuiltinNames) THEN envs
    ELSE defineBuiltinsFrom(
           define(envs, 1, BuiltinNames[i],
                  makeFunction(BuiltinNames[i],
                               [kind |-> "native", name |-> BuiltinNames[i]],
                               BuiltinArity(BuiltinNames[i]), 0)),
           i + 1)
defineBuiltins(envs) == defineBuiltinsFrom(envs, 1)

\* ------------------------------------------------- evaluate() / execute()
RECURSIVE evaluate(_, _)
RECURSIVE evaluateAll(_, _, _)
RECURSIVE evaluateBinary(_, _)
RECURSIVE evaluateUnary(_, _)
RECURSIVE evaluateCall(_, _)
RECURSIVE evaluateArray(_, _)
RECURSIVE evaluateMapPairs(_, _, _, _)
RECURSIVE evaluateMember(_, _)
RECURSIVE evaluateIndex(_, _)
RECURSIVE evaluateAssign(_, _)
RECURSIVE FunctionObject_call(_, _, _)
RECURSIVE funcCallable(_, _, _)
RECURSIVE execute(_, _)
RECURSIVE executeAll(_, _)
RECURSIVE executeIfStmt(_, _)
RECURSIVE executeWhileStmt(_, _, _)
RECURSIVE executeForLoop(_, _, _)
RECURSIVE executeForStmt(_, _)
RECURSIVE executeReturnStmt(_, _)
RECURSIVE executeTryStmt(_, _)
RECURSIVE executeBlockStmt(_, _)

evaluateLiteral(expr, s) ==
    IF HasDot(expr.value_)
    THEN (IF stod(expr.value_).ok THEN Ret(s, FloatOf(stod(expr.value_).v))
          ELSE Ret(s, makeString(Join(expr.value_))))
    ELSE (IF stoll(expr.value_).ok THEN Ret(s, makeInteger(stoll(expr.value_).v))
          ELSE Ret(s, makeString(Join(expr.value_))))

evaluateNumber(expr, s) == Ret(s, makeFloat(expr.num, expr.den))
evaluateString(expr, s) == Ret(s, makeString(expr.value_))
evaluateBool(expr, s) == Ret(s, makeBoolean(expr.value_))
evaluateNull(expr, s) == Ret(s, makeNull)
evaluateVariable(expr, s) == Ret(s, get(s.envs, s.environment_, expr.name_))

evaluate(expr, s) ==
    CASE expr.k = "Literal" -> evaluateLiteral(expr, s)
      [] expr.k = "Number" -> evaluateNumber(expr, s)
      [] expr.k = "String" -> evaluateString(expr, s)
      [] expr.k = "Bool" -> evaluateBool(expr, s)
      [] expr.k = "Null" -> evaluateNull(expr, s)
      [] expr.k = "Variable" -> evaluateVariable(expr, s)
      [] expr.k = "Binary" -> evaluateBinary(expr, s)
      [] expr.k = "Unary" -> evaluateUnary(expr, s)
      [] expr.k = "Call" -> evaluateCall(expr, s)
      [] expr.k = "Array" -> evaluateArray(expr, s)
      [] expr.k = "Map" -> evaluateMapPairs(expr.pairs_, 1, EmptyMap, s)
      [] expr.k = "Member" -> evaluateMember(expr, s)
      [] expr.k = "Index" -> evaluateIndex(expr, s)
      [] expr.k = "Assign" -> evaluateAssign(expr, s)
      [] OTHER -> Ret(s, makeNull)

\* `s` is the state a callee left (computed once); F is the rest of the
\* caller, which runs only if the callee did not throw
Then(s, F(_)) ==
    CHOOSE after \in {IF left.thrown # NoThrow THEN left ELSE F(left) : left \in {s}} : TRUE

\* for (arg : exprs) values.push_back(evaluate(*arg)): left to right
evaluateAll(exprs, acc, s) ==
    IF Len(exprs) = 0 THEN [s EXCEPT !.vals = acc]
    ELSE Then(evaluate(Head(exprs), s),
              LAMBDA s1 : evaluateAll(Tail(exprs), Append(acc, s1.val), s1))

\* the end of evaluateBinary: the switch applied to the two operand values
binaryResult(r, s) ==
    IF r.abort # "" THEN Abort(s, r.abort)
    ELSE IF r.thrown # NoThrow THEN Raise(s, r.thrown)
    ELSE Ret(s, r.val)

\* && and || that leave the right operand alone when the left one decides
evaluateBinary_shortCircuit(expr, s) ==
    Then(evaluate(expr.left_, s), LAMBDA s1 :
      IF expr.op_ = "AND" /\ ~isTruthy(s1.val) THEN Ret(s1, makeBoolean(FALSE))
      ELSE IF expr.op_ = "OR" /\ isTruthy(s1.val) THEN Ret(s1, makeBoolean(TRUE))
      ELSE Then(evaluate(expr.right_, s1), LAMBDA s2 :
             binaryResult(binaryOp(expr.op_, s1.val, s2.val, s2.heap, s2.garbage), s2)))

evaluateBinary(expr, s) ==
    Then(evaluate(expr.left_, s), LAMBDA s1 :
      Then(evaluate(expr.right_, Log(s1, [e |-> "operand", side |-> "left", op |-> expr.op_, inv |-> s.inv])),
           LAMBDA s2 :
             binaryResult(binaryOp(expr.op_, s1.val, s2.val, s2.heap, s2.garbage),
                          Log(s2, [e |-> "operand", side |-> "right", op |-> expr.op_, inv |-> s.inv]))))

evaluateUnary(expr, s) ==
    Then(evaluate(expr.right_, s),
         LAMBDA s1 : binaryResult(unaryOp(expr.op_, s1.val), s1))

\* FunctionObject::call: the arity test, then the std::function
FunctionObject_call(fn, args, s) ==
    LET ev == [e |-> "call", fn |-> fn.name, kind |-> fn.callable.kind,
               arity |-> fn.arity, nargs |-> Len(args), inv |-> s.nextInv]
    IN IF Len(args) # fn.arity /\ fn.arity # 0
       THEN Ret(Log(s, [ev EXCEPT !.inv = 0]), makeNull)
       ELSE CASE fn.callable.kind = "native" ->
                   nativeCall(fn.callable.name, args, s)
              [] fn.callable.kind = "user" -> funcCallable(fn, args, Log(s, ev))
              [] fn.callable.kind = "method" -> Ret(s, makeNull)

callFunction(fn, args, s) == FunctionObject_call(fn, args, s)

RECURSIVE bindParams(_, _, _, _, _)
bindParams(envs, e, params, args, i) ==
    IF i > Len(params) THEN envs
    ELSE bindParams(define(envs, e, params[i], args[i]), e, params, args, i + 1)

\* the lambda of executeFuncDecl up to the try: the new frame, the parameters
funcEnter(fn, args, s) ==
    LET stmt == fn.callable.decl
        funcEnv == Len(s.envs) + 1
    IN Log([s EXCEPT !.envs = bindParams(Append(@, NewEnvironment(s.environment_)),
                                         funcEnv, stmt.params_, args, 1),
                     !.environment_ = funcEnv,
                     !.inv = s.nextInv, !.nextInv = @ + 1, !.tryDepth = 0,
                     !.depth = @ + 1],
           [e |-> "enter", inv |-> s.nextInv, fn |-> stmt.name_, frame |-> funcEnv,
            declEnv |-> fn.declEnv, callEnv |-> s.environment_])

\* the lambda of executeFuncDecl from catch (...) on: s is the state at the
\* call, s2 the state the body left
funcLeave(s, s2) ==
    LET result == makeNull
    IN IF s2.abort # "" THEN s2
       ELSE Log([s2 EXCEPT !.thrown = NoThrow, !.environment_ = s.environment_,
                           !.inv = s.inv, !.tryDepth = s.tryDepth,
                           !.depth = s.depth, !.val = result],
                [e |-> "leave", inv |-> s2.inv, result |-> result,
                 caught |-> s2.thrown])

\* the lambda executeFuncDecl stores in the FunctionObject
funcCallable(fn, args, s) ==
    IF s.depth >= MaxDepth THEN Abort(s, "depth")
    ELSE funcLeave(s, executeAll(fn.callable.decl.body_, funcEnter(fn, args, s)))

\* the CLASS branch of evaluateCall: instantiate(), then __init__ if there is one
instantiateAndInit(callee, arguments, s) ==
    LET ref == Len(s.heap) + 1
        s3 == [s EXCEPT !.heap = Append(@, InstanceObject(callee))]
    IN Then(IF "__init__" \in DOMAIN callee.methods
            THEN callFunction(callee.methods["__init__"], arguments, s3)
            ELSE s3,
            LAMBDA s4 : Ret(s4, InstanceRef(ref)))

evaluateCall(expr, s) ==
    Then(evaluate(expr.callee_, s), LAMBDA s1 :
      Then(evaluateAll(expr.arguments_, <<>>, s1), LAMBDA s2 :
        IF s1.val.t = "FUNCTION" THEN callFunction(s1.val, s2.vals, s2)
        ELSE IF s1.val.t = "CLASS" THEN instantiateAndInit(s1.val, s2.vals, s2)
        ELSE Ret(s2, makeNull)))

evaluateArray(expr, s) ==
    Then(evaluateAll(expr.elements_, <<>>, s), LAMBDA s1 :
      Ret([s1 EXCEPT !.heap = Append(@, ArrayObject(s1.vals))],
          ArrayRef(Len(s1.heap) + 1)))

evaluateMapPairs(pairs, i, map, s) ==
    IF i > Len(pairs)
    THEN Ret([s EXCEPT !.heap = Append(@, MapObject(map))], MapRef(Len(s.heap) + 1))
    ELSE Then(evaluate(pairs[i][1], s), LAMBDA s1 :
           IF s1.val.t = "STRING"
           THEN Then(evaluate(pairs[i][2], s1), LAMBDA s2 :
                  evaluateMapPairs(pairs, i + 1, Put(map, s1.val.s, s2.val), s2))
           ELSE evaluateMapPairs(pairs, i + 1, map, s1))

\* InstanceObject::get on the instance at heap[ref]: [heap, val]
InstanceObject_get(heap, ref, property) ==
    LET obj == heap[ref]
    IN IF property \in DOMAIN obj.fields_
       THEN [heap |-> heap, val |-> obj.fields_[property]]
       ELSE IF property \in DOMAIN obj.class_.methods
            THEN [heap |-> [heap EXCEPT ![ref].fields_ =
                               Put(@, property, obj.class_.methods[property])],
                  val |-> obj.class_.methods[property]]
       ELSE [heap |-> heap, val |-> makeNull]

\* the field kept per class: written into every Instance of the receiver's class
InstanceObject_set_shared(heap, ref, property, value) ==
    [i \in DOMAIN heap |->
       IF heap[i].t = "INSTANCE" /\ heap[i].class_ = heap[ref].class_
       THEN [heap[i] EXCEPT !.fields_ = Put(@, property, value)]
       ELSE heap[i]]

InstanceObject_set(heap, ref, property, value) ==
    [heap EXCEPT ![ref].fields_ = Put(@, property, value)]

memberOf(object, property, s) ==
    IF object.t = "INSTANCE"
    THEN LET r == InstanceObject_get(s.heap, object.ref, property)
         IN Ret([s EXCEPT !.heap = r.heap], r.val)
    ELSE Ret(s, makeNull)

evaluateMember(expr, s) ==
    Then(evaluate(expr.object_, s), LAMBDA s1 : memberOf(s1.val, expr.property_, s1))

\* size_t idx = value: a negative index is a huge one
evaluateIndex(expr, s) ==
    Then(evaluate(expr.array_, s), LAMBDA s1 :
      Then(evaluate(expr.index_, s1), LAMBDA s2 :
        IF s1.val.t = "ARRAY" /\ s2.val.t = "INTEGER"
           /\ s2.val.i >= 0 /\ s2.val.i < Len(s2.heap[s1.val.ref].elements_)
        THEN Ret(s2, s2.heap[s1.val.ref].elements_[s2.val.i + 1])
        ELSE Ret(s2, makeNull)))

evaluateAssign(expr, s) ==
    Then(evaluate(expr.value_, s), LAMBDA s1 :
      IF expr.target_.k = "Variable"
      THEN Ret([s1 EXCEPT !.envs = assign(s1.envs, s1.environment_,
                                          expr.target_.name_, s1.val)], s1.val)
      ELSE IF expr.target_.k = "Member"
           THEN Then(evaluate(expr.target_.object_, s1), LAMBDA s2 :
                  IF s2.val.t = "INSTANCE"
                  THEN Ret([s2 EXCEPT !.heap = InstanceObject_set(
                               s2.heap, s2.val.ref, expr.target_.property_, s1.val)],
                           s1.val)
                  ELSE Ret(s2, s1.val))
      ELSE s1)

\* ------------------------------------------------------------ statements
executeExprStmt(stmt, s) ==
    Then(evaluate(stmt.expression_, s), LAMBDA s1 : [s1 EXCEPT !.lastResult_ = s1.val])

executeVarDecl(stmt, s) ==
    Then(IF stmt.initializer_.k # "none" THEN evaluate(stmt.initializer_, s)
         ELSE Ret(s, makeNull),
         LAMBDA s1 : [s1 EXCEPT !.envs = define(@, s1.environment_, stmt.name_, s1.val)])

\* the callable captures `this` and the declaration node, nothing else
executeFuncDecl(stmt, s) ==
    LET function == makeFunction(stmt.name_, [kind |-> "user", decl |-> stmt],
                                 Len(stmt.params_), s.environment_)
    IN [s EXCEPT !.envs = define(@, s.environment_, stmt.name_, function)]

RECURSIVE methodTable(_, _, _)
methodTable(methods, i, acc) ==
    IF i > Len(methods) THEN acc
    ELSE methodTable(methods, i + 1,
                     Put(acc, methods[i].name_,
                         makeFunction(methods[i].name_, [kind |-> "method"],
                                      Len(methods[i].params_), 0)))

executeClassDecl(stmt, s) ==
    LET classObj == makeClass(stmt.name_, methodTable(stmt.methods_, 1, EmptyMap))
    IN [s EXCEPT !.envs = define(@, s.environment_, stmt.name_, classObj)]

\* a plausible slip: the list goes on after a statement threw
executeAll_on(stmts, s) ==
    IF Len(stmts) = 0 THEN s
    ELSE LET s1 == execute(Head(stmts), s)
         IN IF s1.abort # "" THEN s1
            ELSE executeAll(Tail(stmts), [s1 EXCEPT !.thrown = NoThrow])

\* for (const auto& bodyStmt : stmts) execute(*bodyStmt); an exception
\* leaves the loop
executeAll(stmts, s) ==
    IF Len(stmts) = 0 THEN s
    ELSE Then(execute(Head(stmts), s), LAMBDA s1 : executeAll(Tail(stmts), s1))

executeIfStmt(stmt, s) ==
    Then(evaluate(stmt.condition_, Log(s, [e |-> "cond", k |-> "If", inv |-> s.inv])),
         LAMBDA s1 : IF isTruthy(s1.val) THEN executeAll(stmt.thenBranch_, s1)
                     ELSE executeAll(stmt.elseBranch_, s1))

\* n: iterations the model still allows
executeWhileStmt(stmt, s, n) ==
    IF n = 0 THEN Abort(s, "fuel")
    ELSE Then(evaluate(stmt.condition_,
                       Log(s, [e |-> "cond", k |-> "While", inv |-> s.inv])),
              LAMBDA s1 :
                IF ~isTruthy(s1.val) THEN s1
                ELSE Then(executeAll(stmt.body_, s1),
                          LAMBDA s2 : executeWhileStmt(stmt, s2, n - 1)))

\* the while loop of executeForStmt
executeForLoop(stmt, s, n) ==
    IF n = 0 THEN Abort(s, "fuel")
    ELSE Then(IF stmt.condition_.k = "none" THEN Ret(s, makeBoolean(TRUE))
              ELSE evaluate(stmt.condition_,
                            Log(s, [e |-> "cond", k |-> "For", inv |-> s.inv])),
              LAMBDA s1 :
                IF ~isTruthy(s1.val) THEN s1
                ELSE Then(executeAll(stmt.body_, s1), LAMBDA s2 :
                       Then(IF stmt.increment_.k # "none"
                            THEN evaluate(stmt.increment_,
                                          Log(s2, [e |-> "incr", k |-> "For", inv |-> s.inv]))
                            ELSE s2,
                            LAMBDA s3 : executeForLoop(stmt, s3, n - 1))))

\* a new Environment(environment_) becomes the current one
pushEnvironment(s) ==
    [s EXCEPT !.envs = Append(@, NewEnvironment(s.environment_)),
              !.environment_ = Len(s.envs) + 1]

executeForStmt(stmt, s) ==
    Then(IF stmt.initializer_.k # "none"
         THEN execute(stmt.initializer_, pushEnvironment(s))
         ELSE pushEnvironment(s),
         LAMBDA s1 :
           Then(executeForLoop(stmt, s1, MaxLoopIter),
                LAMBDA s2 : [s2 EXCEPT !.environment_ = s.environment_]))

executeReturnStmt(stmt, s) ==
    Then(IF stmt.value_.k # "none"
         THEN Then(evaluate(stmt.value_, s),
                   LAMBDA s1 : [s1 EXCEPT !.lastResult_ = s1.val])
         ELSE s,
         LAMBDA s2 :
           Throw(Log(s2, [e |-> "return", inv |-> s.inv,
                          hasValue |-> stmt.value_.k # "none",
                          value |-> s2.val, tryDepth |-> s.tryDepth]),
                 ReturnSignal))

\* executeTryStmt from catch (...) on: s1 is the state the try-body left
tryHandler(stmt, tid, s1) ==
    Then(IF Catchable(s1)
         THEN executeAll(stmt.catchBody_,
                Log([s1 EXCEPT !.thrown = NoThrow],
                    [e |-> "catch", tid |-> tid, inv |-> s1.inv,
                     msg |-> s1.thrown, env |-> s1.environment_,
                     var |-> stmt.catchVar_,
                     bound |-> get(s1.envs, s1.environment_, stmt.catchVar_)]))
         ELSE s1,
         LAMBDA s2 :
           executeAll(stmt.finallyBody_,
                      Log(s2, [e |-> "finally", tid |-> tid, inv |-> s2.inv])))

tryEnter(stmt, s) ==
    Log([s EXCEPT !.nextTry = @ + 1, !.tryDepth = @ + 1],
        [e |-> "try", tid |-> s.nextTry, inv |-> s.inv,
         hasFinally |-> Len(stmt.finallyBody_) > 0, env |-> s.environment_])

tryLeave(s, s3) == [s3 EXCEPT !.tryDepth = s.tryDepth]

executeTryStmt(stmt, s) ==
    tryLeave(s, tryHandler(stmt, s.nextTry, executeAll(stmt.tryBody_, tryEnter(stmt, s))))

executeBlockStmt(stmt, s) ==
    Then(executeAll(stmt.statements_, pushEnvironment(s)),
         LAMBDA s1 : [s1 EXCEPT !.environment_ = s.environment_])

execute(stmt, s) ==
    LET s0 == Log(s, [e |-> "exec", k |-> stmt.k, inv |-> s.inv])
    IN CASE stmt.k = "ExprStmt" -> executeExprStmt(stmt, s0)
         [] stmt.k = "VarDecl" -> executeVarDecl(stmt, s0)
         [] stmt.k = "FuncDecl" -> executeFuncDecl(stmt, s0)
         [] stmt.k = "ClassDecl" -> executeClassDecl(stmt, s0)
         [] stmt.k = "If" -> executeIfStmt(stmt, s0)
         [] stmt.k = "While" -> executeWhileStmt(stmt, s0, MaxLoopIter)
         [] stmt.k = "For" -> executeForStmt(stmt, s0)
         [] stmt.k = "Return" -> executeReturnStmt(stmt, s0)
         [] stmt.k = "Try" -> executeTryStmt(stmt, s0)
         [] stmt.k = "Block" -> executeBlockStmt(stmt, s0)
         [] OTHER -> s0

\* --------------------------------------------------------------- programs
\* The statement lists handed to interpret().
IntLit(n) == LiteralExpr(<<Digits[n + 1]>>)
Var(name) == VariableExpr(name)
Call(name, args) == CallExpr(VariableExpr(name), args)
Say(str) == ExprStmt(Call("print", <<StringExpr(str)>>))
SayVar(name) == ExprStmt(Call("print", <<VariableExpr(name)>>))
Set(name, e) == ExprStmt(AssignExpr(VariableExpr(name), e))
BadMinus == ExprStmt(BinaryExpr(IntLit(1), "MINUS", StringExpr("a")))
BadNegate == ExprStmt(UnaryExpr("MINUS", StringExpr("a")))

\* func f(n) { <a statement wrapped twice>; print("after") }
\* var r = f(5); print(r); print("next");
NestPrograms ==
    LET \* the statement a function body is built around
        Inners == {"ret1", "retStr", "retVar", "retVoid", "badMinus", "badNegate", "none"}
        Inner(i) ==
          CASE i = "ret1" -> <<ReturnStmt(IntLit(1))>>
            [] i = "retStr" -> <<ReturnStmt(StringExpr("v"))>>
            [] i = "retVar" -> <<ReturnStmt(BinaryExpr(Var("n"), "PLUS", IntLit(1)))>>
            [] i = "retVoid" -> <<ReturnStmt(NoNode)>>
            [] i = "badMinus" -> <<BadMinus>>
            [] i = "badNegate" -> <<BadNegate>>
            [] i = "none" -> <<>>
        \* the statements wrapped around it; every list goes on after the
        \* wrapped part
        Wrappers == {"Block", "If", "Else", "While", "For", "none"}
        Wrap(w, inner) ==
          CASE w = "Block" -> <<BlockStmt(inner \o <<Say("in-block")>>)>>
            [] w = "If" -> <<IfStmt(IntLit(0), inner \o <<Say("in-then")>>, <<>>)>>
            [] w = "Else" -> <<IfStmt(NullExpr, <<>>, inner \o <<Say("in-else")>>)>>
            [] w = "While" ->
                 <<VarDecl("w", IntLit(0)),
                   WhileStmt(BinaryExpr(Var("w"), "LESS", IntLit(2)),
                             <<Set("w", BinaryExpr(Var("w"), "PLUS", IntLit(1)))>>
                             \o inner \o <<Say("in-while")>>)>>
            [] w = "For" ->
                 <<ForStmt(VarDecl("i", IntLit(0)),
                           BinaryExpr(Var("i"), "LESS", IntLit(2)),
                           AssignExpr(Var("i"), BinaryExpr(Var("i"), "PLUS", IntLit(1))),
                           inner \o <<Say("in-for")>>)>>
            [] w = "none" -> inner
    IN {<<FuncDecl("f", <<"n">>, Wrap(outer, Wrap(mid, Inner(i))) \o <<Say("after")>>),
          VarDecl("r", Call("f", <<IntLit(5)>>)),
          SayVar("r"),
          Say("next")>> : outer \in Wrappers, mid \in Wrappers, i \in Inners}

\* func f(n) { if (n < 2) { return n; } return f(n-1) + f(n-2); }  f(k);
FibPrograms ==
    {<<FuncDecl("f", <<"n">>,
         <<IfStmt(BinaryExpr(Var("n"), "LESS", IntLit(2)), <<ReturnStmt(Var("n"))>>, <<>>),
           ReturnStmt(BinaryExpr(
               Call("f", <<BinaryExpr(Var("n"), "MINUS", IntLit(1))>>), "PLUS",
               Call("f", <<BinaryExpr(Var("n"), "MINUS", IntLit(2))>>)))>>),
       ExprStmt(Call("f", <<IntLit(k)>>))>> : k \in 0..MaxFibArg}

\* try { tb } catch (e) { cb } finally { fb } print("after-try"); print(e);
\* at top level and as the body of a function
TryPrograms ==
    LET TryBodies == {"normal", "raise", "raiseInBlock", "return", "empty"}
        TryBody(b) ==
          CASE b = "normal" -> <<Say("T")>>
            [] b = "raise" -> <<BadMinus, Say("T-after")>>
            [] b = "raiseInBlock" -> <<BlockStmt(<<VarDecl("e", IntLit(7)), BadNegate>>)>>
            [] b = "return" -> <<ReturnStmt(IntLit(1)), Say("T-after")>>
            [] b = "empty" -> <<>>
        CatchBodies == {"normal", "raise", "return", "read", "empty"}
        CatchBody(b) ==
          CASE b = "normal" -> <<Say("C")>>
            [] b = "raise" -> <<BadNegate, Say("C-after")>>
            [] b = "return" -> <<ReturnStmt(IntLit(2))>>
            [] b = "read" -> <<SayVar("e")>>
            [] b = "empty" -> <<>>
        FinallyBodies == {"normal", "return", "empty"}
        FinallyBody(b) ==
          CASE b = "normal" -> <<Say("F")>>
            [] b = "return" -> <<ReturnStmt(IntLit(3))>>
            [] b = "empty" -> <<>>
        Body(tb, cb, fb) ==
          <<TryStmt(TryBody(tb), "e", CatchBody(cb), FinallyBody(fb)),
            Say("after-try"), SayVar("e")>>
    IN {IF inFunction
        THEN <<FuncDecl("f", <<>>, Body(tb, cb, fb)), VarDecl("r", Call("f", <<>>)),
               SayVar("r"), Say("next")>>
        ELSE Body(tb, cb, fb) \o <<Say("next")>> :
          tb \in TryBodies, cb \in CatchBodies, fb \in FinallyBodies,
          inFunction \in BOOLEAN}

\* func f(p1..pn) { print("body"); return 1; }  var r = f(a1..am); print(r);
ArityPrograms ==
    LET ParamNames == <<"p", "q", "u", "v">>
    IN {<<FuncDecl("f", SubSeq(ParamNames, 1, np), <<Say("body"), ReturnStmt(IntLit(1))>>),
          VarDecl("r", Call("f", [i \in 1..na |-> IntLit(i)])),
          SayVar("r")>> : np \in 0..MaxParams, na \in 0..(MaxParams + 1)}

ScopePrograms ==
    << \* caller's local seen (or not) from a callee declared at top level
       <<VarDecl("x", StringExpr("global")),
         FuncDecl("g", <<>>, <<SayVar("x"), SayVar("y")>>),
         FuncDecl("f", <<>>, <<VarDecl("x", StringExpr("local")),
                               VarDecl("y", IntLit(1)),
                               ExprStmt(Call("g", <<>>))>>),
         ExprStmt(Call("f", <<>>)),
         ExprStmt(Call("g", <<>>))>>,
       \* a nested function called after its declaring invocation returned
       <<FuncDecl("outer", <<>>,
           <<VarDecl("c", IntLit(0)),
             FuncDecl("inner", <<>>,
               <<Set("c", BinaryExpr(Var("c"), "PLUS", IntLit(1))), SayVar("c")>>),
             ExprStmt(Call("inner", <<>>)),
             Set("h", Var("inner"))>>),
         ExprStmt(Call("outer", <<>>)),
         ExprStmt(Call("h", <<>>)),
         SayVar("c")>>,
       \* a callee declared inside a block, called from a sibling block
       <<BlockStmt(<<VarDecl("z", IntLit(1)),
                     FuncDecl("k", <<>>, <<SayVar("z")>>),
                     Set("k2", Var("k"))>>),
         BlockStmt(<<VarDecl("z", IntLit(2)), ExprStmt(Call("k2", <<>>))>>),
         ExprStmt(Call("k2", <<>>))>>,
       \* assignment to a name no frame defines, from inside a block
       <<BlockStmt(<<Set("x", IntLit(1)), SayVar("x")>>), SayVar("x")>>,
       \* var a = []; var b = a; b = [1];
       <<VarDecl("a", ArrayExpr(<<>>)), VarDecl("b", Var("a")),
         Set("b", ArrayExpr(<<IntLit(1)>>)), SayVar("a"), SayVar("b")>>,
       \* an error, a return and an integer division by zero at top level
       <<Say("first"), BadMinus, Say("next")>>,
       <<Say("first"), ReturnStmt(IntLit(1)), Say("next")>>,
       <<ExprStmt(BinaryExpr(IntLit(1), "MODULO", IntLit(0))), Say("next")>>,
       \* var x = 42; print(x);
       <<VarDecl("x", LiteralExpr(<<"4", "2">>)), SayVar("x")>>,
       \* a return value and an inner expression statement after the last
       \* expression statement of the top level
       <<Say("first"),
         FuncDecl("f", <<>>, <<ExprStmt(IntLit(7)), ReturnStmt(IntLit(8))>>),
         VarDecl("r", Call("f", <<>>))>>,
       <<ExprStmt(IntLit(5)),
         FuncDecl("g", <<>>, <<ExprStmt(IntLit(7))>>),
         VarDecl("r", Call("g", <<>>))>>
    >>

\* the operand expressions of the operator programs: 0, 2, -3, 0.0, 0.5, "",
\* "a", true, false, null, []
ScalarOperands ==
    {IntLit(0), IntLit(2), UnaryExpr("MINUS", IntLit(3)), NumberExpr(0, 1),
     NumberExpr(1, 2), StringExpr(""), StringExpr("a"), BoolExpr(TRUE),
     BoolExpr(FALSE), NullExpr, ArrayExpr(<<>>)}

\* [0], [2], [[0]], {}, {"k": 0}, {"k": 2}, {"j": 0}, print, len, K, L, K(),
\* K().m, L().m
ObjectOperands ==
    {ArrayExpr(<<IntLit(0)>>), ArrayExpr(<<IntLit(2)>>),
     ArrayExpr(<<ArrayExpr(<<IntLit(0)>>)>>), MapExpr(<<>>),
     MapExpr(<< <<StringExpr("k"), IntLit(0)>> >>),
     MapExpr(<< <<StringExpr("k"), IntLit(2)>> >>),
     MapExpr(<< <<StringExpr("j"), IntLit(0)>> >>),
     Var("print"), Var("len"), Var("K"), Var("L"), Call("K", <<>>),
     MemberExpr(Call("K", <<>>), "m"), MemberExpr(Call("L", <<>>), "m")}

ArithmeticOps == {"PLUS", "MINUS", "MULTIPLY", "DIVIDE", "MODULO"}
ComparisonOps == {"LESS", "LESS_EQUAL", "GREATER", "GREATER_EQUAL"}
EqualityOps == {"EQUAL_EQUAL", "BANG_EQUAL"}
LogicalOps == {"AND", "OR"}

\* var a = <x>; var b = <y>; var r = a <op> b;
\* for == and != after  class K { m() {} } class L { m(v) {} }  and with b = a
\* among the right operands
OperatorPrograms ==
    {<<VarDecl("a", x), VarDecl("b", y),
       VarDecl("r", BinaryExpr(Var("a"), op, Var("b")))>> :
         x \in ScalarOperands, y \in ScalarOperands,
         op \in ArithmeticOps \cup ComparisonOps \cup LogicalOps}
    \cup
    {<<ClassDecl("K", <<FuncDecl("m", <<>>, <<>>)>>),
       ClassDecl("L", <<FuncDecl("m", <<"v">>, <<>>)>>),
       VarDecl("a", x), VarDecl("b", y),
       VarDecl("r", BinaryExpr(Var("a"), op, Var("b")))>> :
         x \in ScalarOperands \cup ObjectOperands,
         y \in ScalarOperands \cup ObjectOperands \cup {Var("a")},
         op \in EqualityOps}

\* class K { __init__(v) { this.x = v; } put(v) { this.y = v; } m() {} }
\* var o = K(1); var p = K(2); var q = o; o.put(3);
\* [p.<f>; o.<f>;]  o.<f> = <v>;  var r = q.<f>; var t = p.<f>;
ClassPrograms ==
    LET SetField(f, e) ==
          ExprStmt(AssignExpr(MemberExpr(Var("this"), f), e))
        K == ClassDecl("K", <<FuncDecl("__init__", <<"v">>, <<SetField("x", Var("v"))>>),
                              FuncDecl("put", <<"v">>, <<SetField("y", Var("v"))>>),
                              FuncDecl("m", <<>>, <<>>)>>)
    IN {<<K,
          VarDecl("o", Call("K", <<IntLit(1)>>)),
          VarDecl("p", Call("K", <<IntLit(2)>>)),
          VarDecl("q", Var("o")),
          ExprStmt(CallExpr(MemberExpr(Var("o"), "put"), <<IntLit(3)>>))>>
        \o (IF readFirst
            THEN <<ExprStmt(MemberExpr(Var("p"), f)), ExprStmt(MemberExpr(Var("o"), f))>>
            ELSE <<>>)
        \o <<ExprStmt(AssignExpr(MemberExpr(Var("o"), f), v)),
             VarDecl("r", MemberExpr(Var("q"), f)),
             VarDecl("t", MemberExpr(Var("p"), f))>> :
          f \in {"x", "m", "z"}, v \in {IntLit(5), StringExpr("s"), NullExpr},
          readFirst \in BOOLEAN}

\* var n = 0; var m = 0; var r = <left> <op> <right>;
\* left:  n = n + 1 (truthy) | (n = n + 1) == 0 (false) | print("L") (Null)
\* right: m = m + n + 1 (truthy) | print(n) (Null)
LogicPrograms ==
    LET Inc == AssignExpr(Var("n"), BinaryExpr(Var("n"), "PLUS", IntLit(1)))
        Lefts == {Inc, BinaryExpr(Inc, "EQUAL_EQUAL", IntLit(0)),
                  Call("print", <<StringExpr("L")>>)}
        Rights == {AssignExpr(Var("m"),
                              BinaryExpr(BinaryExpr(Var("m"), "PLUS", Var("n")),
                                         "PLUS", IntLit(1))),
                   Call("print", <<Var("n")>>)}
    IN {<<VarDecl("n", IntLit(0)), VarDecl("m", IntLit(0)),
          VarDecl("r", BinaryExpr(left, op, right))>> :
          left \in Lefts, right \in Rights, op \in LogicalOps}

\* var c = <x>;
\* var viaIf = null;     if (c) { viaIf = true; } else { viaIf = false; }
\* var viaNot = !c;  var viaAnd = c && true;  var viaOr = c || false;
\* var viaWhile = false; var w = c; while (w) { viaWhile = true; w = null; }
\* var viaFor = false;   for (var f = c; f; f = null) { viaFor = true; }
TruthPrograms ==
    {<<VarDecl("c", x),
       VarDecl("viaIf", NullExpr),
       IfStmt(Var("c"), <<Set("viaIf", BoolExpr(TRUE))>>, <<Set("viaIf", BoolExpr(FALSE))>>),
       VarDecl("viaNot", UnaryExpr("BANG", Var("c"))),
       VarDecl("viaAnd", BinaryExpr(Var("c"), "AND", BoolExpr(TRUE))),
       VarDecl("viaOr", BinaryExpr(Var("c"), "OR", BoolExpr(FALSE))),
       VarDecl("viaWhile", BoolExpr(FALSE)),
       VarDecl("w", Var("c")),
       WhileStmt(Var("w"), <<Set("viaWhile", BoolExpr(TRUE)), Set("w", NullExpr)>>),
       VarDecl("viaFor", BoolExpr(FALSE)),
       ForStmt(VarDecl("f", Var("c")), Var("f"), AssignExpr(Var("f"), NullExpr),
               <<Set("viaFor", BoolExpr(TRUE))>>)>> :
         x \in ScalarOperands
                 \cup {MapExpr(<<>>), ArrayExpr(<<IntLit(0)>>), Var("print")}}

\* var a = [] | [1, 2]; var i = <x>; var r = a[i];
\* x: -1, 0, 1, 2, 3, 0.0, "a", true, null
IndexPrograms ==
    {<<VarDecl("a", arr), VarDecl("i", x), VarDecl("r", IndexExpr(Var("a"), Var("i")))>> :
       arr \in {ArrayExpr(<<>>), ArrayExpr(<<IntLit(1), IntLit(2)>>)},
       x \in {UnaryExpr("MINUS", IntLit(1)), IntLit(0), IntLit(1), IntLit(2), IntLit(3),
              NumberExpr(0, 1), StringExpr("a"), BoolExpr(TRUE), NullExpr}}

\* var k = <x>; var r = {k: 1, "z": 2};
MapPrograms ==
    {<<VarDecl("k", x),
       VarDecl("r", MapExpr(<< <<Var("k"), IntLit(1)>>,
                               <<StringExpr("z"), IntLit(2)>> >>))>> :
       x \in ScalarOperands}

\* what a static_cast<IntegerObject*> of a non-Integer object may read
GarbageValues == {0, 7}

\* ------------------------------------------------------------------ Lexer
\* src/lexer.cpp.  A source text is a sequence of characters (one-character
\* strings); positions are the 0-based start_ and current_ of the code.  A
\* Token is its type, lexeme and line (column_, which no function of the
\* program reads back, is left out).  peek() at the end is '\0': NUL.
Token(type, lexeme, line) == [type |-> type, lexeme |-> lexeme, line |-> line]
NUL == ""
keywords ==
    [w \in {"class", "func", "var", "if", "else", "while", "for", "return", "try",
            "catch", "finally", "true", "false", "null"} |->
       CASE w = "class" -> "CLASS" [] w = "func" -> "FUNC" [] w = "var" -> "VAR"
         [] w = "if" -> "IF" [] w = "else" -> "ELSE" [] w = "while" -> "WHILE"
         [] w = "for" -> "FOR" [] w = "return" -> "RETURN" [] w = "try" -> "TRY"
         [] w = "catch" -> "CATCH" [] w = "finally" -> "FINALLY"
         [] w = "true" -> "TRUE" [] w = "false" -> "FALSE" [] w = "null" -> "NULL"]

\* std::string::substr(pos, n) with n already reduced to what a string can
\* hold: [ok, v]; ok = FALSE is std::out_of_range (pos > size())
substr(chars, pos, n) ==
    IF pos > Len(chars) THEN [ok |-> FALSE, v |-> <<>>]
    ELSE [ok |-> TRUE,
          v |-> SubSeq(chars, pos + 1, IF pos + n < Len(chars) THEN pos + n ELSE Len(chars))]

Lexer(source) ==
    [source_ |-> source, start_ |-> 0, current_ |-> 0, line_ |-> 1, tokens_ |-> <<>>]
Lexer_isAtEnd(lx) == lx.current_ >= Len(lx.source_)
Lexer_advance(lx) == [lx EXCEPT !.current_ = @ + 1]
Lexer_peek(lx) == IF Lexer_isAtEnd(lx) THEN NUL ELSE lx.source_[lx.current_ + 1]
Lexer_peekNext(lx) ==
    IF lx.current_ + 1 >= Len(lx.source_) THEN NUL ELSE lx.source_[lx.current_ + 2]
\* match(expected): [ok, lx]
Lexer_match(lx, expected) ==
    IF Lexer_isAtEnd(lx) \/ lx.source_[lx.current_ + 1] # expected
    THEN [ok |-> FALSE, lx |-> lx]
    ELSE [ok |-> TRUE, lx |-> Lexer_advance(lx)]

isAlpha(c) ==
    c \in {"a", "b", "c", "d", "e", "f", "g", "h", "i", "j", "k", "l", "m", "n", "o",
           "p", "q", "r", "s", "t", "u", "v", "w", "x", "y", "z",
           "A", "B", "C", "D", "E", "F", "G", "H", "I", "J", "K", "L", "M", "N", "O",
           "P", "Q", "R", "S", "T", "U", "V", "W", "X", "Y", "Z", "_"}
isAlphaNumeric(c) == isAlpha(c) \/ IsDigit(c)

\* tokens_.emplace_back(type, text, ...)
addToken_front(lx, type, text) ==
    [lx EXCEPT !.tokens_ = <<Token(type, text, lx.line_)>> \o @]
addToken(lx, type, text) == [lx EXCEPT !.tokens_ = Append(@, Token(type, text, lx.line_))]
lexemeText(lx) == substr(lx.source_, lx.start_, lx.current_ - lx.start_).v

\* F of the state `lx` a step has left, which is computed once
Step(lx, F(_)) == CHOOSE after \in {F(left) : left \in {lx}} : TRUE

\* the loops  while (<test on peek()>) advance();  kind is the test
RECURSIVE advanceWhile(_, _)
advanceWhile(lx, kind) ==
    LET c == Lexer_peek(lx)
        go == CASE kind = "comment" -> c # "\n" /\ ~Lexer_isAtEnd(lx)
                [] kind = "string" -> c # "\"" /\ ~Lexer_isAtEnd(lx)
                [] kind = "digits" -> IsDigit(c)
                [] kind = "identifier" -> isAlphaNumeric(c)
        lx1 == IF kind = "string" /\ c = "\n" THEN [lx EXCEPT !.line_ = @ + 1] ELSE lx
    IN IF go THEN Step(Lexer_advance(lx1), LAMBDA next : advanceWhile(next, kind)) ELSE lx

string(lx) ==
    LET lx1 == advanceWhile(lx, "string")
        lx2 == Lexer_advance(lx1)
    IN IF Lexer_isAtEnd(lx1) THEN lx1
       ELSE addToken(lx2, "STRING",
                     substr(lx2.source_, lx2.start_ + 1, lx2.current_ - lx2.start_ - 2).v)

number(lx) ==
    LET lx1 == advanceWhile(lx, "digits")
        lx2 == IF Lexer_peek(lx1) = "." /\ IsDigit(Lexer_peekNext(lx1))
               THEN advanceWhile(Lexer_advance(lx1), "digits")
               ELSE lx1
    IN addToken(lx2, "NUMBER", lexemeText(lx2))

identifierType(text) ==
    IF Join(text) \in DOMAIN keywords THEN keywords[Join(text)] ELSE "IDENTIFIER"

identifier(lx) ==
    LET lx1 == advanceWhile(lx, "identifier")
    IN addToken(lx1, identifierType(lexemeText(lx1)), lexemeText(lx1))

scanToken(lx0) ==
    LET c == lx0.source_[lx0.current_ + 1]
        lx == Lexer_advance(lx0)
        \* addToken(type) after an optional match(expected)
        plain(type) == addToken(lx, type, lexemeText(lx))
        either(expected, matched, single) ==
          LET m == Lexer_match(lx, expected)
          IN addToken(m.lx, IF m.ok THEN matched ELSE single, lexemeText(m.lx))
    IN CASE c = "(" -> plain("LEFT_PAREN")
         [] c = ")" -> plain("RIGHT_PAREN")
         [] c = "{" -> plain("LEFT_BRACE")
         [] c = "}" -> plain("RIGHT_BRACE")
         [] c = "[" -> plain("LEFT_BRACKET")
         [] c = "]" -> plain("RIGHT_BRACKET")
         [] c = "," -> plain("COMMA")
         [] c = "." -> plain("DOT")
         [] c = ";" -> plain("SEMICOLON")
         [] c = ":" -> plain("COLON")
         [] c = "+" -> plain("PLUS")
         [] c = "*" -> plain("MULTIPLY")
         [] c = "/" -> IF Lexer_match(lx, "/").ok
                       THEN advanceWhile(Lexer_match(lx, "/").lx, "comment")
                       ELSE plain("DIVIDE")
         [] c = "%" -> plain("MODULO")
         [] c = "-" -> plain("MINUS")
         [] c = "!" -> either("=", "BANG_EQUAL", "BANG")
         [] c = "=" -> either("=", "EQUAL_EQUAL", "EQUAL")
         [] c = "<" -> either("=", "LESS_EQUAL", "LESS")
         [] c = ">" -> either("=", "GREATER_EQUAL", "GREATER")
         [] c = "&" -> IF Lexer_match(lx, "&").ok
                       THEN addToken(Lexer_match(lx, "&").lx, "AND",
                                     lexemeText(Lexer_match(lx, "&").lx))
                       ELSE lx
         [] c = "|" -> IF Lexer_match(lx, "|").ok
                       THEN addToken(Lexer_match(lx, "|").lx, "OR",
                                     lexemeText(Lexer_match(lx, "|").lx))
                       ELSE lx
         [] c \in {" ", "\r", "\t"} -> lx
         [] c = "\n" -> [lx EXCEPT !.line_ = @ + 1]
         [] c = "\"" -> string(lx)
         [] IsDigit(c) -> number(lx)
         [] isAlpha(c) -> identifier(lx)
         [] OTHER -> lx

\* ----------------------------------------------------------------- Parser
\* src/parser.cpp.  A parser state ps is the Parser's tokens_ and current_
\* (0-based: peek() is tokens_[current_ + 1] of the 1-based sequence), what it
\* has printed, the exception in flight (`thrown`), and the value the function
\* just returned: `node` (an Expr or Stmt) or `list` (a vector).  `statements`
\* is the local of parse().  Every function is the state after it, given the
\* state before it.
Parser(tokens) ==
    [tokens_ |-> tokens, current_ |-> 0, statements |-> <<>>, out |-> <<>>,
     thrown |-> NoThrow, node |-> NoNode, list |-> <<>>]
Node(ps, n) == [ps EXCEPT !.node = n]
List(ps, l) == [ps EXCEPT !.list = l]
\* a loop whose iteration consumed no token and did not end would run again in
\* the same state, forever: the model stops it here, with Hang in `thrown`
Hang == "<no token consumed>"
Progress(before, after) ==
    IF after.current_ > before.current_ THEN after ELSE [after EXCEPT !.thrown = Hang]

Parser_peek(ps) == ps.tokens_[ps.current_ + 1]
\* tokens_[current_ - 1]: never read with current_ = 0
previous(ps) == ps.tokens_[ps.current_]
Parser_isAtEnd(ps) == Parser_peek(ps).type = "EOF_TOKEN"
Parser_advance(ps) == IF ~Parser_isAtEnd(ps) THEN [ps EXCEPT !.current_ = @ + 1] ELSE ps
check(ps, type) == ~Parser_isAtEnd(ps) /\ Parser_peek(ps).type = type
\* match(types) is this test followed, when it holds, by advance()
Parser_match(ps, types) == \E type \in types : check(ps, type)
consume(ps, type, message) ==
    IF check(ps, type) THEN Parser_advance(ps)
    ELSE [ps EXCEPT !.out = Append(@, "Parse error at line "
                                      \o ToString(Parser_peek(ps).line) \o ": " \o message),
                    !.thrown = message]

\* the binary levels, loosest first: the operators of each and the function
\* that parses its operands
Operators_flat(level) ==
    CASE level = "orExpr" -> {"OR"}
      [] level = "andExpr" -> {"AND"}
      [] level = "equality" -> {"BANG_EQUAL", "EQUAL_EQUAL"}
      [] level = "comparison" -> {"GREATER", "GREATER_EQUAL", "LESS", "LESS_EQUAL"}
      [] level = "term" -> {"MINUS", "PLUS", "MULTIPLY", "DIVIDE", "MODULO"}
      [] level = "factor" -> {}
Operators(level) ==
    CASE level = "orExpr" -> {"OR"}
      [] level = "andExpr" -> {"AND"}
      [] level = "equality" -> {"BANG_EQUAL", "EQUAL_EQUAL"}
      [] level = "comparison" -> {"GREATER", "GREATER_EQUAL", "LESS", "LESS_EQUAL"}
      [] level = "term" -> {"MINUS", "PLUS"}
      [] level = "factor" -> {"MULTIPLY", "DIVIDE", "MODULO"}

StatementStart == {"CLASS", "FUNC", "VAR", "FOR", "IF", "WHILE", "RETURN", "TRY"}

\* Parse(rule, ps) is expression() or statement() applied to ps: the other
\* functions call these two through it
RECURSIVE Parse(_, _), expression(_), assignment(_), binaryLoop(_, _), orExpr(_), andExpr(_),
          equality(_), comparison(_), term(_), factor(_), unary(_), call(_),
          callLoop(_), primary(_), array(_), map(_), mapPairs(_, _), arguments(_),
          arrayElements(_, _), statement(_), expressionStatement(_),
          varDeclaration(_), funcDeclaration(_), classDeclaration(_),
          methodsLoop(_, _), ifStatement(_), whileStatement(_), forStatement(_),
          returnStatement(_), tryStatement(_), block(_), blockStatements(_),
          blockLoop(_, _), parameters(_), parametersLoop(_, _), syncLoop(_)

expression(ps) == assignment(ps)

assignment(ps) ==
    Then(orExpr(ps), LAMBDA p1 :
      IF Parser_match(p1, {"EQUAL"})
      THEN Then(assignment(Parser_advance(p1)), LAMBDA p2 :
             Node(p2, AssignExpr(p1.node, p2.node)))
      ELSE p1)

\* while (match(<operators>)) { op = previous(); right = <operand>(); expr = Binary }
\* after the left operand has been parsed (ps)
binaryLoop(ps, level) ==
    Then(ps, LAMBDA p1 :
      IF Parser_match(p1, Operators(level))
      THEN Then(CASE level = "orExpr" -> andExpr(Parser_advance(p1))
                  [] level = "andExpr" -> equality(Parser_advance(p1))
                  [] level = "equality" -> comparison(Parser_advance(p1))
                  [] level = "comparison" -> term(Parser_advance(p1))
                  [] level = "term" -> factor(Parser_advance(p1))
                  [] level = "factor" -> unary(Parser_advance(p1)),
                LAMBDA p2 :
                  binaryLoop(Node(p2, BinaryExpr(p1.node,
                                                 previous(Parser_advance(p1)).type,
                                                 p2.node)), level))
      ELSE p1)

orExpr(ps) == binaryLoop(andExpr(ps), "orExpr")
andExpr(ps) == binaryLoop(equality(ps), "andExpr")
equality(ps) == binaryLoop(comparison(ps), "equality")
comparison(ps) == binaryLoop(term(ps), "comparison")
term(ps) == binaryLoop(factor(ps), "term")
factor(ps) == binaryLoop(unary(ps), "factor")

unary(ps) ==
    IF Parser_match(ps, {"BANG", "MINUS"})
    THEN Then(unary(Parser_advance(ps)), LAMBDA p :
           Node(p, UnaryExpr(previous(Parser_advance(ps)).type, p.node)))
    ELSE call(ps)

call(ps) == callLoop(primary(ps))

\* the while (true) of call(), after primary() or a postfix has been parsed
callLoop(ps) ==
    Then(ps, LAMBDA p1 :
      IF Parser_match(p1, {"LEFT_PAREN"})
      THEN Then(arguments(Parser_advance(p1)), LAMBDA p2 :
           Then(consume(p2, "RIGHT_PAREN", "Expect ')' after arguments."), LAMBDA p3 :
             callLoop(Node(p3, CallExpr(p1.node, p2.list)))))
      ELSE IF Parser_match(p1, {"LEFT_BRACKET"})
      THEN Then(Parse("expression", Parser_advance(p1)), LAMBDA p2 :
           Then(consume(p2, "RIGHT_BRACKET", "Expect ']' after index."), LAMBDA p3 :
             callLoop(Node(p3, IndexExpr(p1.node, p2.node)))))
      ELSE IF Parser_match(p1, {"DOT"})
      THEN Then(consume(Parser_advance(p1), "IDENTIFIER", "Expect property name after '.'."),
                LAMBDA p2 :
                  callLoop(Node(p2, MemberExpr(p1.node, Join(previous(p2).lexeme)))))
      ELSE p1)

\* value.substr(1, value.size() - 2) of primary(): size() - 2 is a size_t, so
\* for a value shorter than 2 it wraps to a count no string is shorter than
removeQuotes(value) ==
    substr(value, 1, IF Len(value) >= 2 THEN Len(value) - 2 ELSE Len(value))

primary(ps) ==
    CASE check(ps, "FALSE") -> Node(Parser_advance(ps), BoolExpr(FALSE))
      [] check(ps, "TRUE") -> Node(Parser_advance(ps), BoolExpr(TRUE))
      [] check(ps, "NULL") -> Node(Parser_advance(ps), NullExpr)
      [] check(ps, "NUMBER") ->
           IF HasDot(Parser_peek(ps).lexeme)
           THEN IF stod(Parser_peek(ps).lexeme).ok
                THEN Node(Parser_advance(ps), NumberExpr(stod(Parser_peek(ps).lexeme).v[1],
                                                         stod(Parser_peek(ps).lexeme).v[2]))
                ELSE [Parser_advance(ps) EXCEPT !.thrown = "stod"]
           ELSE Node(Parser_advance(ps), LiteralExpr(Parser_peek(ps).lexeme))
      [] check(ps, "STRING") ->
           IF removeQuotes(Parser_peek(ps).lexeme).ok
           THEN Node(Parser_advance(ps),
                     StringExpr(Join(removeQuotes(Parser_peek(ps).lexeme).v)))
           ELSE [Parser_advance(ps) EXCEPT !.thrown = "basic_string::substr"]
      [] check(ps, "IDENTIFIER") ->
           Node(Parser_advance(ps), VariableExpr(Join(Parser_peek(ps).lexeme)))
      [] check(ps, "LEFT_PAREN") ->
           Then(Parse("expression", Parser_advance(ps)), LAMBDA p1 :
           Then(consume(p1, "RIGHT_PAREN", "Expect ')' after expression."), LAMBDA p2 :
             Node(p2, p1.node)))
      [] check(ps, "LEFT_BRACKET") -> array(Parser_advance(ps))
      [] check(ps, "LEFT_BRACE") -> map(Parser_advance(ps))
      [] OTHER -> Node([ps EXCEPT !.out = Append(@, "Expect expression.")], NoNode)

array(ps) ==
    Then(IF ~check(ps, "RIGHT_BRACKET") THEN arrayElements(ps, <<>>) ELSE List(ps, <<>>),
         LAMBDA p1 :
           Then(consume(p1, "RIGHT_BRACKET", "Expect ']' after array elements."), LAMBDA p2 :
             Node(p2, ArrayExpr(p1.list))))

\* do { key : value } while (match(COMMA)), the pairs so far being `pairs`
mapPairs(ps, pairs) ==
    Then(Parse("expression", ps), LAMBDA p1 :
    Then(consume(p1, "COLON", "Expect ':' after map key."), LAMBDA p2 :
    Then(Parse("expression", p2), LAMBDA p3 :
      IF Parser_match(p3, {"COMMA"})
      THEN mapPairs(Parser_advance(p3), Append(pairs, <<p1.node, p3.node>>))
      ELSE List(p3, Append(pairs, <<p1.node, p3.node>>)))))

map(ps) ==
    Then(IF ~check(ps, "RIGHT_BRACE") THEN mapPairs(ps, <<>>) ELSE List(ps, <<>>),
         LAMBDA p1 :
           Then(consume(p1, "RIGHT_BRACE", "Expect '}' after map entries."), LAMBDA p2 :
             Node(p2, MapExpr(p1.list))))

\* do { elements.push_back(expression()); } while (match(COMMA));
arrayElements(ps, elements) ==
    Then(Parse("expression", ps), LAMBDA p :
      IF Parser_match(p, {"COMMA"})
      THEN arrayElements(Parser_advance(p), Append(elements, p.node))
      ELSE List(p, Append(elements, p.node)))

\* the same do-while as arrayElements(), unless the next token is ')'
arguments(ps) ==
    IF ~check(ps, "RIGHT_PAREN") THEN arrayElements(ps, <<>>) ELSE List(ps, <<>>)

\* the chain of  if (match(<type>)) return <function>();  : the types exclude
\* one another, and match() fails on the end-of-input token
statement(ps) ==
    CASE check(ps, "VAR") -> varDeclaration(Parser_advance(ps))
      [] check(ps, "FUNC") -> funcDeclaration(Parser_advance(ps))
      [] check(ps, "CLASS") -> classDeclaration(Parser_advance(ps))
      [] check(ps, "IF") -> ifStatement(Parser_advance(ps))
      [] check(ps, "WHILE") -> whileStatement(Parser_advance(ps))
      [] check(ps, "FOR") -> forStatement(Parser_advance(ps))
      [] check(ps, "RETURN") -> returnStatement(Parser_advance(ps))
      [] check(ps, "TRY") -> tryStatement(Parser_advance(ps))
      [] check(ps, "LEFT_BRACE") -> block(Parser_advance(ps))
      [] OTHER -> expressionStatement(ps)

expressionStatement(ps) ==
    Then(Parse("expression", ps), LAMBDA p1 :
    Then(consume(p1, "SEMICOLON", "Expect ';' after expression."), LAMBDA p2 :
      Node(p2, ExprStmt(p1.node))))

varDeclaration(ps) ==
    Then(consume(ps, "IDENTIFIER", "Expect variable name."), LAMBDA p1 :
    Then(IF Parser_match(p1, {"EQUAL"}) THEN Parse("expression", Parser_advance(p1))
         ELSE Node(p1, NoNode), LAMBDA p2 :
    Then(consume(p2, "SEMICOLON", "Expect ';' after variable declaration."), LAMBDA p3 :
      Node(p3, VarDecl(Join(previous(p1).lexeme), p2.node)))))

funcDeclaration(ps) ==
    Then(consume(ps, "IDENTIFIER", "Expect function name."), LAMBDA p1 :
    Then(consume(p1, "LEFT_PAREN", "Expect '(' after function name."), LAMBDA p2 :
    Then(parameters(p2), LAMBDA p3 :
    Then(consume(p3, "RIGHT_PAREN", "Expect ')' after parameters."), LAMBDA p4 :
    Then(consume(p4, "LEFT_BRACE", "Expect '{' before function body."), LAMBDA p5 :
    Then(blockStatements(p5), LAMBDA p6 :
    Then(consume(p6, "RIGHT_BRACE", "Expect '}' after function body."), LAMBDA p7 :
      Node(p7, FuncDecl(Join(previous(p1).lexeme), p3.list, p6.list)))))))))

\* while (!check(RIGHT_BRACE) && !isAtEnd()) methods.push_back(funcDeclaration());
methodsLoop(ps, methods) ==
    IF ~check(ps, "RIGHT_BRACE") /\ ~Parser_isAtEnd(ps)
    THEN Then(funcDeclaration(ps), LAMBDA p :
           Then(Progress(ps, p), LAMBDA q : methodsLoop(q, Append(methods, q.node))))
    ELSE List(ps, methods)

classDeclaration(ps) ==
    Then(consume(ps, "IDENTIFIER", "Expect class name."), LAMBDA p1 :
    Then(consume(p1, "LEFT_BRACE", "Expect '{' before class body."), LAMBDA p2 :
    Then(methodsLoop(p2, <<>>), LAMBDA p3 :
    Then(consume(p3, "RIGHT_BRACE", "Expect '}' after class body."), LAMBDA p4 :
      Node(p4, ClassDecl(Join(previous(p1).lexeme), p3.list))))))

ifStatement(ps) ==
    Then(consume(ps, "LEFT_PAREN", "Expect '(' after 'if'."), LAMBDA p1 :
    Then(Parse("expression", p1), LAMBDA p2 :
    Then(consume(p2, "RIGHT_PAREN", "Expect ')' after if condition."), LAMBDA p3 :
    Then(blockStatements(p3), LAMBDA p4 :
      IF Parser_match(p4, {"ELSE"})
      THEN IF check(Parser_advance(p4), "IF")
           THEN Then(ifStatement(Parser_advance(p4)), LAMBDA p5 :
                  Node(p5, IfStmt(p2.node, p4.list, <<p5.node>>)))
           ELSE Then(blockStatements(Parser_advance(p4)), LAMBDA p5 :
                  Node(p5, IfStmt(p2.node, p4.list, p5.list)))
      ELSE Node(p4, IfStmt(p2.node, p4.list, <<>>))))))

whileStatement(ps) ==
    Then(consume(ps, "LEFT_PAREN", "Expect '(' after 'while'."), LAMBDA p1 :
    Then(Parse("expression", p1), LAMBDA p2 :
    Then(consume(p2, "RIGHT_PAREN", "Expect ')' after while condition."), LAMBDA p3 :
    Then(blockStatements(p3), LAMBDA p4 :
      Node(p4, WhileStmt(p2.node, p4.list))))))

forStatement(ps) ==
    Then(consume(ps, "LEFT_PAREN", "Expect '(' after 'for'."), LAMBDA p1 :
    Then(IF Parser_match(p1, {"VAR"}) THEN varDeclaration(Parser_advance(p1))
         ELSE IF Parser_match(p1, {"SEMICOLON"}) THEN Node(Parser_advance(p1), NoNode)
         ELSE expressionStatement(p1), LAMBDA p2 :
    Then(IF ~check(p2, "SEMICOLON") THEN Parse("expression", p2) ELSE Node(p2, NoNode), LAMBDA p3 :
    Then(consume(p3, "SEMICOLON", "Expect ';' after loop condition."), LAMBDA p4 :
    Then(IF ~check(p4, "RIGHT_PAREN") THEN Parse("expression", p4) ELSE Node(p4, NoNode), LAMBDA p5 :
    Then(consume(p5, "RIGHT_PAREN", "Expect ')' after for clauses."), LAMBDA p6 :
    Then(blockStatements(p6), LAMBDA p7 :
      Node(p7, ForStmt(p2.node, p3.node, p5.node, p7.list)))))))))

returnStatement(ps) ==
    Then(IF ~check(ps, "SEMICOLON") THEN Parse("expression", ps) ELSE Node(ps, NoNode), LAMBDA p1 :
    Then(consume(p1, "SEMICOLON", "Expect ';' after return value."), LAMBDA p2 :
      Node(p2, ReturnStmt(p1.node))))

tryStatement(ps) ==
    Then(blockStatements(ps), LAMBDA p1 :
    Then(consume(p1, "CATCH", "Expect 'catch' after try block."), LAMBDA p2 :
    Then(consume(p2, "LEFT_PAREN", "Expect '(' after 'catch'."), LAMBDA p3 :
    Then(consume(p3, "IDENTIFIER", "Expect exception variable name."), LAMBDA p4 :
    Then(consume(p4, "RIGHT_PAREN", "Expect ')' after catch variable."), LAMBDA p5 :
    Then(blockStatements(p5), LAMBDA p6 :
      IF Parser_match(p6, {"FINALLY"})
      THEN Then(blockStatements(Parser_advance(p6)), LAMBDA p7 :
             Node(p7, TryStmt(p1.list, Join(previous(p4).lexeme), p6.list, p7.list)))
      ELSE Node(p6, TryStmt(p1.list, Join(previous(p4).lexeme), p6.list, <<>>))))))))

block(ps) ==
    Then(blockStatements(ps), LAMBDA p1 :
    Then(consume(p1, "RIGHT_BRACE", "Expect '}' after block."), LAMBDA p2 :
      Node(p2, BlockStmt(p1.list))))

\* while (!check(RIGHT_BRACE) && !isAtEnd()) statements.push_back(statement());
blockLoop(ps, statements) ==
    IF ~check(ps, "RIGHT_BRACE") /\ ~Parser_isAtEnd(ps)
    THEN Then(Parse("statement", ps), LAMBDA p :
           Then(Progress(ps, p), LAMBDA q : blockLoop(q, Append(statements, q.node))))
    ELSE List(ps, statements)

blockStatements(ps) == blockLoop(ps, <<>>)

\* do { consume(IDENTIFIER); params.push_back(...); } while (match(COMMA));
parametersLoop(ps, params) ==
    Then(consume(ps, "IDENTIFIER", "Expect parameter name."), LAMBDA p :
      IF Parser_match(p, {"COMMA"})
      THEN parametersLoop(Parser_advance(p), Append(params, Join(previous(p).lexeme)))
      ELSE List(p, Append(params, Join(previous(p).lexeme))))

parameters(ps) ==
    IF ~check(ps, "RIGHT_PAREN") THEN parametersLoop(ps, <<>>) ELSE List(ps, <<>>)

\* the while (!isAtEnd()) of synchronize()
syncLoop(ps) ==
    IF Parser_isAtEnd(ps) THEN ps
    ELSE IF previous(ps).type = "SEMICOLON" THEN ps
    ELSE IF Parser_peek(ps).type \in StatementStart THEN ps
    ELSE Then(Progress(ps, Parser_advance(ps)), LAMBDA p : syncLoop(p))

Parse(rule, ps) ==
    CASE rule = "expression" -> expression(ps)
      [] rule = "statement" -> statement(ps)

\* the mutation: the handler of parse() left empty
synchronize_nothing(ps) == ps
synchronize(ps) == syncLoop(Parser_advance(ps))

\* ---------------------------------------------------------- state machine
VARIABLES program, pc, status, envs, environment_, globals_, heap,
          lastResult_, out, trace, garbage, result, lexer, parser

vars == <<program, pc, status, envs, environment_, globals_, heap,
          lastResult_, out, trace, garbage, result, lexer, parser>>

CountEvents(tr, kind) == Cardinality({i \in DOMAIN tr : tr[i].e = kind})

\* the interpreter as execute() finds it at the start of a top-level statement
Current ==
    [envs |-> envs, environment_ |-> environment_, heap |-> heap,
     lastResult_ |-> lastResult_, out |-> out, garbage |-> garbage,
     thrown |-> NoThrow, abort |-> "", val |-> makeNull, vals |-> <<>>,
     trace |-> trace, inv |-> 0, nextInv |-> CountEvents(trace, "enter") + 1,
     tryDepth |-> 0, nextTry |-> CountEvents(trace, "try") + 1, depth |-> 0]

\* Interpreter::Interpreter()
InitInterpreter ==
    /\ envs = defineBuiltins(<<NewEnvironment(0)>>)
    /\ environment_ = 1
    /\ globals_ = 1
    /\ heap = <<>>
    /\ lastResult_ = NullPtr
    /\ out = <<>>
    /\ trace = <<>>
    /\ pc = 1
    /\ status = "running"
    /\ result = NullPtr

InitProgram ==
    \/ program \in NestPrograms
    \/ program \in FibPrograms
    \/ program \in TryPrograms
    \/ program \in ArityPrograms
    \/ \E i \in 1..Len(ScopePrograms) : program = ScopePrograms[i]

\* interpret() given its statements directly: no Lexer and no Parser exist
NoFrontEnd == lexer = <<>> /\ parser = <<>>

Init == InitProgram /\ garbage \in GarbageValues /\ InitInterpreter /\ NoFrontEnd

Adopt(s) ==
    /\ envs' = s.envs
    /\ environment_' = s.environment_
    /\ heap' = s.heap
    /\ lastResult_' = s.lastResult_
    /\ trace' = s.trace

\* interpret(): one iteration of the loop, the statement completes
interpretExecute ==
    /\ status = "running" /\ pc <= Len(program)
    /\ LET s == execute(program[pc], Current)
       IN /\ s.thrown = NoThrow
          /\ Adopt(s)
          /\ out' = s.out
          /\ pc' = pc + 1
    /\ UNCHANGED <<program, status, globals_, garbage, result, lexer, parser>>

\* interpret(): the statement throws; the handler prints and interpret returns
interpretCatch ==
    /\ status = "running" /\ pc <= Len(program)
    /\ LET s == execute(program[pc], Current)
       IN /\ Catchable(s)
          /\ Adopt(s)
          /\ out' = Append(s.out, "Runtime error: " \o s.thrown)
          /\ result' = s.lastResult_
    /\ status' = "returned"
    /\ UNCHANGED <<program, pc, globals_, garbage, lexer, parser>>

\* interpret(): the loop is over
interpretReturn ==
    /\ status = "running" /\ pc > Len(program)
    /\ status' = "returned"
    /\ result' = lastResult_
    /\ UNCHANGED <<program, pc, envs, environment_, globals_, heap, lastResult_,
                   out, trace, garbage, lexer, parser>>

\* the statement ends the process (SIGFPE) or runs past a bound of the model
interpretAbort ==
    /\ status = "running" /\ pc <= Len(program)
    /\ LET s == execute(program[pc], Current)
       IN /\ s.abort # ""
          /\ Adopt(s)
          /\ out' = s.out
          /\ status' = s.abort
    /\ UNCHANGED <<program, pc, globals_, garbage, result, lexer, parser>>

Next == interpretExecute \/ interpretCatch \/ interpretReturn \/ interpretAbort

Spec == Init /\ [][Next]_vars

\* the interpreter run on the programs about operators, truthiness, indexing
\* and instances
ExprInit ==
    /\ program \in OperatorPrograms \cup ClassPrograms \cup LogicPrograms
                   \cup TruthPrograms \cup IndexPrograms \cup MapPrograms
    /\ garbage \in GarbageValues
    /\ InitInterpreter
    /\ NoFrontEnd

ExprSpec == ExprInit /\ [][Next]_vars

\* the bounds of the model are never what stops a run
WithinBounds == status \notin {"fuel", "depth"}

\* ------------------------------------------------- the Environment alone
\* The operations the interpreter performs on its Environment chain, one at a
\* time: a scope is entered (executeBlockStmt, executeForStmt, the callable of
\* a function: a new Environment whose enclosing_ is the current one), left
\* again (environment_ = previousEnv), a name is declared (executeVarDecl) or
\* assigned (evaluateAssign).  `trace` holds the last operation, `pc` counts.
Names == {"a", "b"}

EnvInit ==
    /\ program = <<>>
    /\ garbage = 0
    /\ InitInterpreter
    /\ NoFrontEnd

EnvStep(op) ==
    /\ status = "running" /\ pc <= MaxOps
    /\ pc' = pc + 1
    /\ trace' = <<op>>
    /\ UNCHANGED <<program, status, globals_, lastResult_, out, garbage, result,
                   lexer, parser>>

\* executeBlockStmt: blockEnv = new Environment(environment_)
scopeEnter ==
    /\ Len(envs) < MaxEnvs
    /\ envs' = Append(envs, NewEnvironment(environment_))
    /\ environment_' = Len(envs) + 1
    /\ heap' = heap
    /\ EnvStep([op |-> "enter"])

\* executeBlockStmt: environment_ = previousEnv
scopeLeave ==
    /\ envs[environment_].enclosing_ # 0
    /\ environment_' = envs[environment_].enclosing_
    /\ UNCHANGED <<envs, heap>>
    /\ EnvStep([op |-> "leave"])

\* var name = 1;
declareInteger ==
    \E name \in Names :
      /\ envs' = define(envs, environment_, name, makeInteger(1))
      /\ UNCHANGED <<environment_, heap>>
      /\ EnvStep([op |-> "define", name |-> name, value |-> makeInteger(1)])

\* var name = [];
declareArray ==
    \E name \in Names :
      /\ heap' = Append(heap, ArrayObject(<<>>))
      /\ envs' = define(envs, environment_, name, ArrayRef(Len(heap) + 1))
      /\ UNCHANGED environment_
      /\ EnvStep([op |-> "define", name |-> name, value |-> ArrayRef(Len(heap) + 1)])

\* var name = other;
declareAlias ==
    \E name \in Names, other \in Names :
      /\ name # other
      /\ envs' = define(envs, environment_, name, get(envs, environment_, other))
      /\ UNCHANGED <<environment_, heap>>
      /\ EnvStep([op |-> "define", name |-> name,
                  value |-> get(envs, environment_, other)])

\* name = 2;
assignInteger ==
    \E name \in Names :
      /\ envs' = assign(envs, environment_, name, makeInteger(2))
      /\ UNCHANGED <<environment_, heap>>
      /\ EnvStep([op |-> "assign", name |-> name, value |-> makeInteger(2)])

\* name = [1];
assignArray ==
    \E name \in Names :
      /\ heap' = Append(heap, ArrayObject(<<makeInteger(1)>>))
      /\ envs' = assign(envs, environment_, name, ArrayRef(Len(heap) + 1))
      /\ UNCHANGED environment_
      /\ EnvStep([op |-> "assign", name |-> name, value |-> ArrayRef(Len(heap) + 1)])

EnvNext ==
    \/ scopeEnter \/ scopeLeave \/ declareInteger \/ declareArray
    \/ declareAlias \/ assignInteger \/ assignArray

EnvSpec == EnvInit /\ [][EnvNext]_vars

\* the frames from e outward
RECURSIVE Chain(_, _)
Chain(es, e) == IF e = 0 THEN <<>> ELSE <<e>> \o Chain(es, es[e].enclosing_)
Defining(es, e, name) ==
    {i \in 1..Len(Chain(es, e)) : name \in DOMAIN es[Chain(es, e)[i]].values_}
\* the first frame of the chain from e that defines name
Nearest(es, e, name) ==
    Chain(es, e)[CHOOSE i \in Defining(es, e, name) :
                   \A j \in Defining(es, e, name) : i <= j]
IsAssignStep == pc' = pc + 1 /\ Len(trace') = 1 /\ trace'[1].op = "assign"

\* ------------------------------------------------- the Lexer alone (LexSpec)
\* Lexer lexer(source); lexer.scanTokens(), one iteration of its loop at a
\* time, on every text of at most MaxSourceLen characters of Alphabet and on
\* the texts of Sources.  No Parser and no Interpreter exist yet.
MaxSourceLen == 3
Alphabet == {"i", "f", "1", ".", "\"", "/", "\n", "=", "&", "#"}
\* a text as the sequence of its characters
Chars(text) == [i \in 1..Len(text) |-> SubSeq(text, i, i)]
TestSource == Chars("var x = 42; print(x);")
Sources ==
    {TestSource,
     Chars("a!=b||!c|d"),
     Chars("x<=1.5>y_2\t%\r-"),
     Chars("[1,2]{}:+*//c\n\"s\n\""),
     Chars("class else nulls")}

NotConstructed ==
    /\ program = <<>>
    /\ pc = 0
    /\ envs = <<>>
    /\ environment_ = 0
    /\ globals_ = 0
    /\ heap = <<>>
    /\ lastResult_ = NullPtr
    /\ out = <<>>
    /\ trace = <<>>
    /\ result = NullPtr

LexInit ==
    /\ \E source \in UNION {[1..n -> Alphabet] : n \in 0..MaxSourceLen} \cup Sources :
         lexer = Lexer(source)
    /\ parser = <<>>
    /\ status = "scanning"
    /\ garbage = 0
    /\ NotConstructed

\* scanTokens(): one iteration of  while (!isAtEnd()) { start_ = current_; scanToken(); }
scanTokensLoop ==
    /\ status = "scanning" /\ ~Lexer_isAtEnd(lexer)
    /\ lexer' = scanToken([lexer EXCEPT !.start_ = lexer.current_])
    /\ UNCHANGED <<program, pc, status, envs, environment_, globals_, heap,
                   lastResult_, out, trace, garbage, result, parser>>

\* scanTokens(): the loop is over, the end-of-input token is added
scanTokensReturn ==
    /\ status = "scanning" /\ Lexer_isAtEnd(lexer)
    /\ lexer' = addToken(lexer, "EOF_TOKEN", <<>>)
    /\ status' = "scanned"
    /\ UNCHANGED <<program, pc, envs, environment_, globals_, heap,
                   lastResult_, out, trace, garbage, result, parser>>

LexNext == scanTokensLoop \/ scanTokensReturn

\* the loop of scanTokens() runs on: nothing else is scheduled
LexSpec == LexInit /\ [][LexNext]_vars /\ WF_vars(LexNext)

\* ------------------------------------------------------ the Parser (ParseSpec)
\* Parser parser(tokens); parser.parse(), one iteration of its loop at a time,
\* on every sequence of at most MaxTokens tokens of TokenAlphabet followed by
\* the end-of-input token, and on the tokens scanTokens() returns for the
\* texts of ParseTexts (which have the parentheses, braces and keywords
\* TokenAlphabet leaves out): for these the run starts with the Lexer, as
\* main() does.
MaxTokens == 3
TokenAlphabet ==
    {Token("IDENTIFIER", <<"a">>, 1), Token("NUMBER", <<"1">>, 1),
     Token("SEMICOLON", <<";">>, 1), Token("EQUAL", <<"=">>, 1),
     Token("MINUS", <<"-">>, 1), Token("DOT", <<".">>, 1),
     Token("RIGHT_PAREN", <<")">>, 1), Token("PLUS", <<"+">>, 1),
     Token("RIGHT_BRACE", <<"}">>, 1), Token("VAR", <<"v", "a", "r">>, 1),
     Token("IF", <<"i", "f">>, 1), Token("CLASS", <<"c", "l", "a", "s", "s">>, 1)}
BinaryLexemes == {"||", "&&", "==", "!=", "<", "<=", ">", ">=", "+", "-", "*", "/", "%"}
PrecedenceTexts ==
    {"a " \o o1 \o " b " \o o2 \o " c;" : o1 \in BinaryLexemes, o2 \in BinaryLexemes}
    \cup {"a = b " \o o \o " c;" : o \in BinaryLexemes}
    \cup {"a = b = c;", "-a * b;", "!a == b;", "- - a;", "-a.b;", "-f(x);", "!a[0];",
          "a.b(c)[d];", "f()(x).y[0];", "a * (b + c);", "a + b.c;", "a + f(b);",
          "1 + 2 * 3;"}
AssignTexts ==
    {"1 = 2;", "f() = 3;", "a + b = 4;", "a[0] = 5;", "\"s\" = 6;", "a = 7;", "a.b = 8;",
     "a = 1 = 2;", "var x = 1; x + 1 = 9; print(x);"}
BraceTexts ==
    {"if (0) { print(1); } else { print(2); }",
     "if (null) { print(1); } else { print(2); }",
     "if (0) { print(1); } print(3);",
     "if (a) { } else if (b) { }",
     "while (a) { b; } c;",
     "for (var i = 0; i < 2; i = i + 1) { print(i); } print(9);",
     "for (;;) { } d;",
     "for (i = 0; ; ) e;",
     "try { a; } catch (e) { b; } finally { c; } d;",
     "try a; catch (e) b; }",
     "try a; catch (e) b; finally c; }",
     "if (0) print(1); else print(2); }",
     "if (0) print(1); }",
     "while (a) b; }"}
RecoveryTexts ==
    {"var var x = 1; print(x);",
     "1 + ; var y = 2;",
     "(",
     "( if (a) b; } c;",
     ") ; return 1; return;",
     "var = 1 func f(a, b) { return a; } f(1, 2);",
     "class K { m() { } n(v) { this.x = v; } } var k = K();",
     "class { } class L { 1 } func g( { } func h() { ",
     "x = [1, 2]; y = {\"ab\": 1, \"cd\": [ ]}; z = {1: 2; w = [",
     "true; false; null; 1.5; \"\"; \"a\"; { a; } { b;"}
ParseTexts == PrecedenceTexts \cup AssignTexts \cup BraceTexts \cup RecoveryTexts

EndOfInput == Token("EOF_TOKEN", <<>>, 1)

ParseInit ==
    /\ \/ /\ \E seq \in UNION {[1..n -> TokenAlphabet] : n \in 0..MaxTokens} :
                parser = Parser(Append(seq, EndOfInput))
          /\ lexer = <<>>
          /\ status = "parsing"
       \/ /\ \E text \in ParseTexts : lexer = Lexer(Chars(text))
          /\ parser = <<>>
          /\ status = "scanning"
    /\ garbage = 0
    /\ NotConstructed

\* main(): darix::Parser parser(tokens);
mainParse ==
    /\ status = "scanned"
    /\ parser' = Parser(lexer.tokens_)
    /\ status' = "parsing"
    /\ UNCHANGED <<program, pc, envs, environment_, globals_, heap, lastResult_,
                   out, trace, garbage, result, lexer>>

\* the Parser as statement() finds it at the start of an iteration of parse()
Parsing == [parser EXCEPT !.out = out, !.node = NoNode, !.list = <<>>]

\* parse(): one iteration of the loop, statement() returns a statement
parseStatement ==
    /\ status = "parsing" /\ ~Parser_isAtEnd(parser)
    /\ LET ps == Parse("statement", Parsing)
       IN /\ ps.thrown = NoThrow
          /\ parser' = [ps EXCEPT !.statements = Append(@, ps.node), !.out = <<>>,
                                  !.node = NoNode, !.list = <<>>]
          /\ out' = ps.out
    /\ UNCHANGED <<program, pc, status, envs, environment_, globals_, heap,
                   lastResult_, trace, garbage, result, lexer>>

\* parse(): statement() throws; catch (...) { synchronize(); }
parseSynchronize ==
    /\ status = "parsing" /\ ~Parser_isAtEnd(parser)
    /\ LET ps == Parse("statement", Parsing)
       IN /\ ps.thrown \notin {NoThrow, Hang}
          /\ parser' = [synchronize([ps EXCEPT !.thrown = NoThrow])
                          EXCEPT !.out = <<>>, !.node = NoNode, !.list = <<>>]
          /\ parser'.thrown = NoThrow
          /\ out' = ps.out
    /\ UNCHANGED <<program, pc, status, envs, environment_, globals_, heap,
                   lastResult_, trace, garbage, result, lexer>>

\* parse(): the loop is over
parseReturn ==
    /\ status = "parsing" /\ Parser_isAtEnd(parser)
    /\ status' = "parsed"
    /\ UNCHANGED <<program, pc, envs, environment_, globals_, heap, lastResult_,
                   out, trace, garbage, result, lexer, parser>>

ParseNext == parseStatement \/ parseSynchronize \/ parseReturn

FrontNext == LexNext \/ mainParse \/ ParseNext

\* main() runs on from one step to the next: nothing else is scheduled
ParseSpec == ParseInit /\ [][FrontNext]_vars /\ WF_vars(FrontNext)

\* ------------------------------------------------- main(): the whole run
\* src/main.cpp: the text of the file goes through Lexer, Parser and
\* Interpreter.  `out` is the standard output of the process, which the Parser
\* and the Interpreter both write.
StringTexts ==
    {"print(\"hello\");",
     "print(\"a\" + \"b\");",
     "print(\"ab\");",
     "var s = \"a\"; print(s);",
     "print(\"\"); print(1);",
     "var t = \"a b\" + \"cd\"; print(t);"}
IfTexts ==
    {"if (0) { print(1); } else { print(2); }",
     "if (null) { print(1); } else { print(2); }",
     "if (0) { print(1); } print(3);",
     "if (null) { print(1); } print(3);",
     "while (null) { print(1); } print(3);",
     "for (var i = 0; i < 2; i = i + 1) { print(i); } print(9);",
     "try { print(1); } catch (e) { print(2); } finally { print(3); } print(4);"}
RunTexts ==
    {"var x = 42; print(x);",
     "var x = 1; x + 1 = 9; print(x);",
     "var x = 1; 2 = x; print(x);",
     "var x = 1; x = 5; print(x);",
     "print(y); return 1; print(2);",
     "print(1 % 0); print(2);",
     "var var x = 1; print(x);",
     "print(1); var return 2; print(3);"}
MainTexts == StringTexts \cup IfTexts \cup RunTexts

MainInit ==
    /\ \E text \in MainTexts : lexer = Lexer(Chars(text))
    /\ parser = <<>>
    /\ status = "scanning"
    /\ garbage \in GarbageValues
    /\ NotConstructed

\* main(): darix::Interpreter interpreter; interpreter.interpret(statements);
mainInterpret ==
    /\ status = "parsed"
    /\ program' = parser.statements
    /\ envs' = defineBuiltins(<<NewEnvironment(0)>>)
    /\ environment_' = 1
    /\ globals_' = 1
    /\ heap' = <<>>
    /\ lastResult_' = NullPtr
    /\ trace' = <<>>
    /\ pc' = 1
    /\ result' = NullPtr
    /\ status' = "running"
    /\ UNCHANGED <<out, garbage, lexer, parser>>

MainNext == FrontNext \/ mainInterpret \/ Next

MainSpec == MainInit /\ [][MainNext]_vars

\* ------------------------------------------------------------------ claims
\* C1: a call of a user function with as many arguments as parameters yields
\* the value of the `return e` its body executed, and Null if the body ran to
\* its end without a return.
C1_CallYieldsReturnValue ==
    \A i \in DOMAIN trace :
      (/\ trace[i].e = "leave" /\ i > 1
       /\ \E c \in 1..i : /\ trace[c].e = "call" /\ trace[c].inv = trace[i].inv
                          /\ trace[c].nargs = trace[c].arity) =>
        /\ (trace[i - 1].e = "return" /\ trace[i - 1].inv = trace[i].inv
            /\ trace[i - 1].hasValue)
              => trace[i].result = trace[i - 1].value
        /\ (\A j \in 1..i : trace[j].e = "return" => trace[j].inv # trace[i].inv)
              => trace[i].result = makeNull

\* C2: a return executed in an invocation, under any nesting of Block, If,
\* While and For statements, is followed by nothing of that invocation: the
\* next thing that happens is the invocation's end, and no statement,
\* condition test or increment of the invocation comes after.
C2_ReturnEndsInvocation ==
    \A i \in DOMAIN trace :
      (trace[i].e = "return" /\ trace[i].inv > 0 /\ trace[i].tryDepth = 0) =>
        /\ i < Len(trace)
        /\ trace[i + 1].e = "leave" /\ trace[i + 1].inv = trace[i].inv
        /\ \A j \in (i + 2)..Len(trace) : trace[j].inv # trace[i].inv

\* a return ran inside a For inside a While of an invocation, and the program
\* went on to its end
C2_Witness ==
    /\ status = "returned"
    /\ \E i, j, l \in DOMAIN trace :
         /\ j < l /\ l < i
         /\ trace[i].e = "return" /\ trace[i].inv > 0 /\ trace[i].tryDepth = 0
         /\ trace[j].e = "cond" /\ trace[j].k = "While" /\ trace[j].inv = trace[i].inv
         /\ trace[l].e = "cond" /\ trace[l].k = "For" /\ trace[l].inv = trace[i].inv

\* C3: the finally-body of a Try statement that has one runs exactly once,
\* whichever way the try/catch part ends.
C3_FinallyExactlyOnce ==
    \A i \in DOMAIN trace :
      (trace[i].e = "try" /\ trace[i].hasFinally) =>
        Cardinality({j \in DOMAIN trace :
                       trace[j].e = "finally" /\ trace[j].tid = trace[i].tid}) = 1

\* C4: a return in a try-body is not an error: no catch-body runs for it, and
\* it reaches the boundary of the call it was executed in.
C4_ReturnPassesTry ==
    /\ \A i \in DOMAIN trace :
         (trace[i].e = "catch" /\ trace[i].inv > 0) => trace[i].msg # ReturnSignal
    /\ \A i, j \in DOMAIN trace :
         (trace[i].e = "return" /\ trace[i].inv > 0 /\ trace[j].e = "leave"
          /\ trace[j].inv = trace[i].inv) => trace[j].caught = ReturnSignal

\* C5: the frame of an invocation is a child of the environment that was
\* current where the function was declared.
C5_FrameIsChildOfDeclarationEnv ==
    \A i \in DOMAIN trace :
      trace[i].e = "enter" => envs[trace[i].frame].enclosing_ = trace[i].declEnv

\* C6: no call of a user function ends by dropping a runtime error its body
\* raised: the error leaves the call.
C6_ErrorLeavesTheCall ==
    \A i \in DOMAIN trace :
      trace[i].e = "leave" => trace[i].caught \in {NoThrow, ReturnSignal}

\* C7: a catch-body that runs for a runtime error runs in a fresh child of the
\* Try statement's environment, in which the catch variable is the message.
C7_CatchBindsMessage ==
    \A i, j \in DOMAIN trace :
      (trace[i].e = "try" /\ trace[j].e = "catch" /\ trace[j].tid = trace[i].tid
       /\ trace[j].msg # ReturnSignal) =>
        /\ trace[j].env # trace[i].env
        /\ envs[trace[j].env].enclosing_ = trace[i].env
        /\ trace[j].bound = makeString(trace[j].msg)

\* C8: a call of a user function with a number of arguments other than its
\* number of parameters raises, and nothing else happens first.
C8_ArityMismatchRaises ==
    \A i \in DOMAIN trace :
      (trace[i].e = "call" /\ trace[i].kind = "user"
       /\ trace[i].nargs # trace[i].arity) =>
        /\ i < Len(trace)
        /\ trace[i + 1].e = "raise"

\* C9: an assignment to a name no frame of the chain defines binds it in the
\* current frame and changes no other frame.
C9_ImplicitDefinitionIsLocal ==
    [][(IsAssignStep /\ Defining(envs, environment_, trace'[1].name) = {}) =>
         envs' = define(envs, environment_, trace'[1].name, trace'[1].value)]_vars

\* C10: an assignment to a name some frame of the chain defines rebinds it in
\* the nearest such frame and changes nothing else: no other frame, no other
\* name, no object.
C10_AssignRebindsNearest ==
    [][(IsAssignStep /\ Defining(envs, environment_, trace'[1].name) # {}) =>
         LET f == Nearest(envs, environment_, trace'[1].name)
         IN /\ Len(envs') = Len(envs)
            /\ \A e \in DOMAIN envs : DOMAIN envs'[e].values_ = DOMAIN envs[e].values_
            /\ envs'[f].values_[trace'[1].name] = trace'[1].value
            /\ \A e \in DOMAIN envs' :
                 \A name \in DOMAIN envs'[e].values_ :
                   (e # f \/ name # trace'[1].name) =>
                     envs'[e].values_[name] = envs[e].values_[name]
            /\ SubSeq(heap', 1, Len(heap)) = heap]_vars

\* `b` was an alias of the array `a` names, then b = [1] ran: `a` still names
\* the empty array; and a name two frames define was assigned from the inner
\* one, the outer binding kept
C10_Witness ==
    /\ Len(trace) = 1 /\ trace[1].op = "assign" /\ trace[1].name = "b"
    /\ trace[1].value.t = "ARRAY"
    /\ "a" \in DOMAIN envs[1].values_ /\ envs[1].values_["a"].t = "ARRAY"
    /\ heap[envs[1].values_["a"].ref].elements_ = <<>>
    /\ environment_ = 2
    /\ "b" \in DOMAIN envs[2].values_ /\ "b" \in DOMAIN envs[1].values_
    /\ envs[1].values_["b"] = envs[1].values_["a"]
    /\ envs[2].values_["b"] = trace[1].value

\* C11: a read yields the binding of the nearest frame of the chain that
\* defines the name, and Null when none does; a declaration in an inner frame
\* changes no other frame; once a scope is left, a name resolves as it did
\* from the enclosing frame.
C11_ReadYieldsNearestBinding ==
    [][/\ \A name \in Names \cup {"undeclared"} :
            get(envs', environment_', name) =
              IF Defining(envs', environment_', name) = {} THEN makeNull
              ELSE envs'[Nearest(envs', environment_', name)].values_[name]
       /\ (pc' = pc + 1 /\ trace'[1].op = "define") =>
            \A e \in DOMAIN envs : e # environment_ => envs'[e] = envs[e]
       /\ (pc' = pc + 1 /\ trace'[1].op = "leave") =>
            \A name \in Names :
              get(envs', environment_', name) =
                get(envs, envs[environment_].enclosing_, name)]_vars

\* `a` is an Integer in the global frame and was just declared as an array in
\* the block that is current; `b` is declared nowhere
C11_Witness ==
    /\ Len(trace) = 1 /\ trace[1].op = "define" /\ trace[1].name = "a"
    /\ environment_ = 2 /\ envs[2].enclosing_ = 1
    /\ "a" \in DOMAIN envs[1].values_ /\ envs[1].values_["a"] = makeInteger(1)
    /\ "a" \in DOMAIN envs[2].values_ /\ envs[2].values_["a"].t = "ARRAY"
    /\ get(envs, environment_, "a").t = "ARRAY"
    /\ get(envs, environment_, "b") = makeNull

\* ------------------------------------------------- operators (ExprSpec)
\* The last statement of an operator program is `var r = a <op> b`; a, b and
\* r are globals.  The statement has completed when the loop of interpret()
\* has moved past it, and has raised when interpret()'s handler ended the
\* run at it.
Operation == program[Len(program)]
OnOperands(ops) ==
    /\ Operation.k = "VarDecl"
    /\ Operation.initializer_.k = "Binary"
    /\ Operation.initializer_.left_ = Var("a")
    /\ Operation.initializer_.op_ \in ops
Completed == pc > Len(program)
Raised == pc = Len(program) /\ status = "returned"
Global(name) == envs[1].values_[name]
IsNumber(v) == v.t \in {"INTEGER", "FLOAT"}

Compare(op, a, b) ==
    LET x == IF a.t = "INTEGER" THEN <<a.i, 1>> ELSE <<a.num, a.den>>
        y == IF b.t = "INTEGER" THEN <<b.i, 1>> ELSE <<b.num, b.den>>
        lt == x[1] * y[2] < y[1] * x[2]
        eq == x[1] * y[2] = y[1] * x[2]
    IN CASE op = "LESS" -> lt
         [] op = "LESS_EQUAL" -> lt \/ eq
         [] op = "GREATER" -> ~lt /\ ~eq
         [] op = "GREATER_EQUAL" -> ~lt

Finished == Completed \/ (pc = Len(program) /\ status # "running")

\* r is a remainder of the division of a by b: a = q * b + r with |r| < |b|
IsRemainder(a, b, r) ==
    /\ Abs(r) < Abs(b)
    /\ \E q \in -Abs(a)..Abs(a) : a = q * b + r

\* C14: on two Integers + - * and % (divisor not zero) complete with the
\* Integer of the arithmetic result and / completes with a Float; on a Float
\* and a number + - * / complete with a Float.
C14_ArithmeticTagging ==
    (OnOperands(ArithmeticOps) /\ Finished
       /\ IsNumber(Global("a")) /\ IsNumber(Global("b"))) =>
        LET a == Global("a")
            b == Global("b")
            op == Operation.initializer_.op_
        IN IF a.t = "INTEGER" /\ b.t = "INTEGER"
           THEN CASE op = "PLUS" -> Completed /\ Global("r") = makeInteger(a.i + b.i)
                  [] op = "MINUS" -> Completed /\ Global("r") = makeInteger(a.i - b.i)
                  [] op = "MULTIPLY" -> Completed /\ Global("r") = makeInteger(a.i * b.i)
                  [] op = "MODULO" ->
                       b.i # 0 => /\ Completed
                                  /\ Global("r").t = "INTEGER"
                                  /\ IsRemainder(a.i, b.i, Global("r").i)
                  [] op = "DIVIDE" -> Completed /\ Global("r").t = "FLOAT"
           ELSE op # "MODULO" => Completed /\ Global("r").t = "FLOAT"

\* -3 / 2 has completed with the Float -1.5
C14_Witness ==
    /\ OnOperands({"DIVIDE"}) /\ Completed
    /\ Global("a") = makeInteger(-3) /\ Global("b") = makeInteger(2)
    /\ Global("r") = makeFloat(-3, 2)

\* ------------------------------------------------- instances (ExprSpec)
\* what a member access reads on the Instance the global `name` is bound to
Field(h, name, property) == InstanceObject_get(h, Global(name).ref, property).val

\* C15: a method runs its declared body on the receiver: once `var o = K(1)`
\* has run __init__(v) { this.x = v; }, o.x reads 1, and once o.put(3) has
\* run put(v) { this.y = v; }, o.y reads 3.
C15_MethodBodyRunsOnReceiver ==
    (program \in ClassPrograms) =>
        /\ pc = 3 => Field(heap, "o", "x") = makeInteger(1)
        /\ pc = 6 => Field(heap, "o", "y") = makeInteger(3)

\* the step of interpret() that executes the statement `o.<f> = <v>;`
IsMemberAssignStep ==
    /\ program \in ClassPrograms
    /\ status = "running" /\ pc <= Len(program) /\ pc' = pc + 1
    /\ program[pc].k = "ExprStmt"
    /\ program[pc].expression_.k = "Assign"

\* C16: the step executing o.<f> = <v> changes the heap at the fields_ entry
\* <f> of the Instance o is bound to and nowhere else: every other object,
\* that Instance's class and other fields, and every Environment (the Class
\* values with their method tables among them) are as before; <f> then reads
\* <v> through o and through the alias q, and reads on the other Instance p
\* what it read before (the method, when <f> names one).  At the end of the
\* program r, read through q, is <v>, and t, read through p, is not the field.
C16_MemberAssignWritesOwnFields ==
    [][/\ IsMemberAssignStep =>
            LET ref == Global("o").ref
                f == program[pc].expression_.target_.property_
                v == evaluate(program[pc].expression_.value_, Current).val
            IN /\ Len(heap') = Len(heap)
               /\ \A i \in DOMAIN heap : i # ref => heap'[i] = heap[i]
               /\ heap'[ref].class_ = heap[ref].class_
               /\ DOMAIN heap'[ref].fields_ = DOMAIN heap[ref].fields_ \cup {f}
               /\ \A g \in DOMAIN heap[ref].fields_ \ {f} :
                    heap'[ref].fields_[g] = heap[ref].fields_[g]
               /\ envs' = envs
               /\ Field(heap', "o", f) = v /\ Field(heap', "q", f) = v
               /\ Field(heap', "p", f) = Field(heap, "p", f)
       /\ (program \in ClassPrograms /\ pc' > Len(program)) =>
            LET assigned == program[Len(program) - 2].expression_
                f == assigned.target_.property_
            IN /\ envs'[1].values_["r"] = evaluate(assigned.value_, Current).val
               /\ envs'[1].values_["t"] =
                    IF f = "m" THEN heap'[1].class_.methods["m"] ELSE makeNull]_vars

\* o.m = 5 has run after p.m was read: through the alias q, m reads 5, and on
\* p it still reads the method
C16_Witness ==
    /\ program \in ClassPrograms /\ Completed /\ Len(program) = 10
    /\ Global("q") = Global("o") /\ Global("p") # Global("o")
    /\ Global("r") = makeInteger(5)
    /\ Global("t").t = "FUNCTION" /\ Global("t").name = "m"
    /\ heap[Global("o").ref].fields_["m"] = makeInteger(5)

\* ------------------------------------------------- equality (ExprSpec)
\* == as the language defines it over the values and the heap h
RECURSIVE SameValue(_, _, _)
SameValue(a, b, h) ==
    /\ a.t = b.t
    /\ CASE a.t \in {"INTEGER", "FLOAT", "STRING", "BOOLEAN", "NULL_OBJ"} -> a = b
         [] a.t = "ARRAY" ->
              LET x == h[a.ref].elements_
                  y == h[b.ref].elements_
              IN Len(x) = Len(y) /\ \A i \in 1..Len(x) : SameValue(x[i], y[i], h)
         [] a.t = "MAP" ->
              LET x == h[a.ref].map_
                  y == h[b.ref].map_
              IN DOMAIN x = DOMAIN y /\ \A key \in DOMAIN x : SameValue(x[key], y[key], h)
         [] a.t \in {"FUNCTION", "CLASS"} -> a.name = b.name
         [] a.t = "INSTANCE" -> a.ref = b.ref

\* C17: == completes with the Boolean of: same variant and, by variant, same
\* value (Integer, Float, String, Boolean, Null), same length and pairwise
\* equal elements (Array), same keys with equal values (Map), same name
\* (Function, Class), same object (Instance); != completes with its negation.
C17_EqualityByVariant ==
    (OnOperands(EqualityOps) /\ Finished) =>
        /\ Completed
        /\ Global("r") =
             makeBoolean((Operation.initializer_.op_ = "EQUAL_EQUAL")
                           <=> SameValue(Global("a"), Global("b"), heap))

\* K() == K(): two Instances with identical class and fields are not equal
C17_Witness ==
    /\ OnOperands({"EQUAL_EQUAL"}) /\ Completed
    /\ Global("a").t = "INSTANCE" /\ Global("b").t = "INSTANCE"
    /\ Global("a").ref # Global("b").ref
    /\ heap[Global("a").ref] = heap[Global("b").ref]
    /\ Global("r") = makeBoolean(FALSE)

\* ------------------------------------------------- && and || (ExprSpec)
\* C18: once `var r = <left> <op> <right>` has run, with <op> one of && ||,
\* both operands have been evaluated once, the left one first, whatever the
\* left one yielded: n has been incremented once when the left operand
\* increments it, "L" has been printed once and before anything the right
\* operand prints, and the right operand has read n as the left one left it
\* (m = n + 1, or n printed) once.
C18_BothOperandsEvaluated ==
    (program \in LogicPrograms /\ Finished) =>
        LET left == Operation.initializer_.left_
            right == Operation.initializer_.right_
            n == IF left.k = "Call" THEN 0 ELSE 1
        IN /\ Completed
           /\ Global("n") = makeInteger(n)
           /\ Global("m") = makeInteger(IF right.k = "Call" THEN 0 ELSE n + 1)
           /\ out = (IF left.k = "Call" THEN <<toString(makeString("L"), heap)>> ELSE <<>>)
                      \o (IF right.k = "Call" THEN <<toString(makeInteger(n), heap)>>
                          ELSE <<>>)

\* (n = n + 1) || (m = m + n + 1): the left operand is truthy and decides the
\* result, and the right operand has still run, after it
C18_Witness ==
    /\ program \in LogicPrograms /\ Completed
    /\ Operation.initializer_.op_ = "OR"
    /\ Operation.initializer_.left_.k = "Assign"
    /\ Global("n") = makeInteger(1) /\ Global("m") = makeInteger(2)
    /\ Global("r") = makeBoolean(TRUE)

\* ------------------------------------------------- truthiness (ExprSpec)
\* C19: the condition of if, while and for, the operand of ! and the operands
\* of && and || all take c for false exactly when c is Null or the Boolean
\* false: each of the six constructs, run on c, has recorded that.
C19_FalsyOnlyNullAndFalse ==
    (program \in TruthPrograms /\ Finished) =>
        LET truthy == makeBoolean(Global("c") \notin {makeNull, makeBoolean(FALSE)})
        IN /\ Completed
           /\ Global("viaIf") = truthy
           /\ Global("viaNot") = makeBoolean(~truthy.b)
           /\ Global("viaAnd") = truthy
           /\ Global("viaOr") = truthy
           /\ Global("viaWhile") = truthy
           /\ Global("viaFor") = truthy

\* the Integer 0 has been taken for true by all six constructs
C19_Witness ==
    /\ program \in TruthPrograms /\ Completed
    /\ Global("c") = makeInteger(0)
    /\ Global("viaIf") = makeBoolean(TRUE) /\ Global("viaNot") = makeBoolean(FALSE)
    /\ Global("viaAnd") = makeBoolean(TRUE) /\ Global("viaOr") = makeBoolean(TRUE)
    /\ Global("viaWhile") = makeBoolean(TRUE) /\ Global("viaFor") = makeBoolean(TRUE)

\* ------------------------------------------------- indexing (ExprSpec)
\* C20: `var r = a[i]` on an Array a raises unless i is an Integer within
\* 0..length-1: for a negative, too large or non-Integer i the statement does
\* not complete with a value.
C20_BadIndexRaises ==
    (program \in IndexPrograms /\ Finished) =>
        LET i == Global("i")
            length == Len(heap[Global("a").ref].elements_)
        IN (i.t = "INTEGER" /\ i.i \in 0..(length - 1)) \/ Raised

\* ------------------------------------------------- map literals (ExprSpec)
\* C21: `var r = {k: 1, "z": 2}` raises when k is not a String; it completes
\* only with a String k, and then k is a key of the Map.
C21_NonStringKeyRaises ==
    (program \in MapPrograms /\ Finished) =>
        IF Global("k").t = "STRING"
        THEN Completed /\ Global("k").s \in DOMAIN heap[Global("r").ref].map_
        ELSE Raised

\* ------------------------------------------------- the final value (Spec)
\* the last expression statement of the top level (0: there is none)
LastExprStmt ==
    LET at == {i \in 1..Len(program) : program[i].k = "ExprStmt"}
    IN IF at = {} THEN 0 ELSE CHOOSE i \in at : \A j \in at : j <= i

\* C24: when the last expression statement of the top level completes,
\* lastResult_ is that statement's own value; no statement executed after it
\* changes lastResult_ (neither a return nor an expression statement in a
\* function it calls); and interpret(), at the end of the list, returns it.
C24_FinalValueIsLastTopLevelValue ==
    [][/\ (status = "running" /\ pc' = pc + 1 /\ pc = LastExprStmt) =>
            lastResult_' = evaluate(program[pc].expression_, Current).val
       /\ (status = "running" /\ pc' = pc + 1 /\ LastExprStmt > 0 /\ pc > LastExprStmt) =>
            lastResult_' = lastResult_
       /\ (status = "running" /\ status' = "returned" /\ pc > Len(program)) =>
            result' = lastResult_]_vars

\* ------------------------------------------------- scope balance (Spec)
\* C29: between two statements of the top level and after interpret() has
\* returned (every Block, For, Try and call started so far has ended, by
\* completion, return or error) the current environment is the global one,
\* and every catch body has started in the environment its Try started in.
C29_ScopesAreBalanced ==
    /\ status \in {"running", "returned"} => environment_ = globals_
    /\ \A i \in DOMAIN trace :
         trace[i].e = "catch" =>
           \E j \in 1..(i - 1) : /\ trace[j].e = "try"
                                 /\ trace[j].tid = trace[i].tid
                                 /\ trace[j].env = trace[i].env

\* ------------------------------------------------- scanTokens (LexSpec)
TypesOf(tokens) == [i \in DOMAIN tokens |-> tokens[i].type]
IsPrefix(a, b) == Len(a) <= Len(b) /\ SubSeq(b, 1, Len(a)) = a
\* the characters of source_ at the 0-based positions from..(to - 1)
Slice(lx, from, to) == SubSeq(lx.source_, from + 1, to)

\* C25: scanTokens() terminates; every scanToken step consumes at least one
\* character and never moves back, the tokens it emits are added after the
\* ones emitted before and are spelled by characters the step consumed (source
\* order); the returned sequence has exactly one end-of-input token, at the
\* last position; `var x = 42; print(x);` gives the 11 tokens of the test.
C25_ScanTokensOnePass ==
    /\ <>(status = "scanned")
    /\ [][status = "scanning" /\ status' = "scanning" =>
            /\ lexer'.current_ > lexer.current_
            /\ lexer'.current_ <= Len(lexer.source_)
            /\ IsPrefix(lexer.tokens_, lexer'.tokens_)
            /\ Len(lexer'.tokens_) <= Len(lexer.tokens_) + 1
            /\ \A i \in (Len(lexer.tokens_) + 1)..Len(lexer'.tokens_) :
                 \E from \in lexer.current_..lexer'.current_ :
                   \E to \in from..lexer'.current_ :
                     lexer'.tokens_[i].lexeme = Slice(lexer, from, to)]_vars
    /\ [](status = "scanned" =>
            /\ lexer.tokens_ # <<>>
            /\ \A i \in DOMAIN lexer.tokens_ :
                 lexer.tokens_[i].type = "EOF_TOKEN" <=> i = Len(lexer.tokens_)
            /\ lexer.source_ = TestSource =>
                 /\ TypesOf(lexer.tokens_) =
                      <<"VAR", "IDENTIFIER", "EQUAL", "NUMBER", "SEMICOLON", "IDENTIFIER",
                        "LEFT_PAREN", "IDENTIFIER", "RIGHT_PAREN", "SEMICOLON", "EOF_TOKEN">>
                 /\ lexer.tokens_[2].lexeme = <<"x">>
                 /\ lexer.tokens_[4].lexeme = <<"4", "2">>
                 /\ lexer.tokens_[6].lexeme = <<"p", "r", "i", "n", "t">>)

C25_Witness ==
    /\ status = "scanned" /\ lexer.source_ = TestSource /\ Len(lexer.tokens_) = 11

\* ------------------------------------------------- parse() ends (ParseSpec)
\* C30: on every token sequence that ends with the end-of-input token parse()
\* terminates: each iteration of its loop consumes at least one token, and no
\* inner loop (blockStatements, the methods of a class, synchronize) stops the
\* run by repeating without consuming, also when primary() reports `Expect
\* expression.` without consuming and when the error is raised at end-of-input.
C30_ParseTerminates ==
    /\ <>(status = "parsed")
    /\ [][status = "parsing" /\ status' = "parsing" =>
            /\ parser'.current_ > parser.current_
            /\ parser'.current_ < Len(parser.tokens_)]_vars
    /\ [](status = "parsed" => Parser_isAtEnd(parser))

\* `(` alone: primary() reports `Expect expression.` at end-of-input without
\* consuming, consume() raises there, synchronize() runs with the cursor at
\* the end, and parse() has returned
C30_Witness ==
    /\ status = "parsed"
    /\ TypesOf(parser.tokens_) = <<"LEFT_PAREN", "EOF_TOKEN">>
    /\ out = <<"Expect expression.", "Parse error at line 1: Expect ')' after expression.">>

\* the token type of a binary operator's lexeme, and the rank of its level in
\* the order logical-or < logical-and < equality < comparison < additive <
\* multiplicative
TypeOfLexeme(lexeme) ==
    CASE lexeme = "||" -> "OR" [] lexeme = "&&" -> "AND"
      [] lexeme = "==" -> "EQUAL_EQUAL" [] lexeme = "!=" -> "BANG_EQUAL"
      [] lexeme = "<" -> "LESS" [] lexeme = "<=" -> "LESS_EQUAL"
      [] lexeme = ">" -> "GREATER" [] lexeme = ">=" -> "GREATER_EQUAL"
      [] lexeme = "+" -> "PLUS" [] lexeme = "-" -> "MINUS"
      [] lexeme = "*" -> "MULTIPLY" [] lexeme = "/" -> "DIVIDE" [] lexeme = "%" -> "MODULO"
Rank(lexeme) ==
    CASE lexeme = "||" -> 1
      [] lexeme = "&&" -> 2
      [] lexeme \in {"==", "!="} -> 3
      [] lexeme \in {"<", "<=", ">", ">="} -> 4
      [] lexeme \in {"+", "-"} -> 5
      [] lexeme \in {"*", "/", "%"} -> 6
\* the tree the order gives `a o1 b o2 c`: the tighter operator below the
\* looser one, and to the left when the two are of one level
Grouped(o1, o2) ==
    IF Rank(o2) > Rank(o1)
    THEN BinaryExpr(VariableExpr("a"), TypeOfLexeme(o1),
                    BinaryExpr(VariableExpr("b"), TypeOfLexeme(o2), VariableExpr("c")))
    ELSE BinaryExpr(BinaryExpr(VariableExpr("a"), TypeOfLexeme(o1), VariableExpr("b")),
                    TypeOfLexeme(o2), VariableExpr("c"))
\* parse() has returned for the text, without a message, the one expression
\* statement of `tree`
ParsedAs(text, tree) ==
    lexer.source_ = Chars(text) => parser.statements = <<ExprStmt(tree)>> /\ out = <<>>

\* C28: the parser builds trees by the precedence order assignment < logical-or
\* < logical-and < equality < comparison < additive < multiplicative < unary <
\* call/postfix < primary. For every pair of binary operators o1, o2 the text
\* `a o1 b o2 c;` parses to the tree in which the tighter operator is the child
\* of the looser one, and two operators of one level group to the left; an
\* assignment's value is the whole binary expression to its right and a chain
\* of assignments groups to the right; a unary operator binds tighter than any
\* binary one and looser than a postfix, and postfixes chain left to right.
C28_PrecedenceOrder ==
    status = "parsed" /\ lexer # <<>> =>
        /\ \A o1 \in BinaryLexemes, o2 \in BinaryLexemes :
               ParsedAs("a " \o o1 \o " b " \o o2 \o " c;", Grouped(o1, o2))
        /\ \A o \in BinaryLexemes :
               ParsedAs("a = b " \o o \o " c;",
                        AssignExpr(VariableExpr("a"),
                                   BinaryExpr(VariableExpr("b"), TypeOfLexeme(o),
                                              VariableExpr("c"))))
        /\ ParsedAs("a = b = c;",
                    AssignExpr(VariableExpr("a"),
                               AssignExpr(VariableExpr("b"), VariableExpr("c"))))
        /\ ParsedAs("1 + 2 * 3;",
                    BinaryExpr(LiteralExpr(<<"1">>), "PLUS",
                               BinaryExpr(LiteralExpr(<<"2">>), "MULTIPLY",
                                          LiteralExpr(<<"3">>))))
        /\ ParsedAs("-a * b;",
                    BinaryExpr(UnaryExpr("MINUS", VariableExpr("a")), "MULTIPLY",
                               VariableExpr("b")))
        /\ ParsedAs("!a == b;",
                    BinaryExpr(UnaryExpr("BANG", VariableExpr("a")), "EQUAL_EQUAL",
                               VariableExpr("b")))
        /\ ParsedAs("- - a;", UnaryExpr("MINUS", UnaryExpr("MINUS", VariableExpr("a"))))
        /\ ParsedAs("-a.b;", UnaryExpr("MINUS", MemberExpr(VariableExpr("a"), "b")))
        /\ ParsedAs("-f(x);",
                    UnaryExpr("MINUS", CallExpr(VariableExpr("f"), <<VariableExpr("x")>>)))
        /\ ParsedAs("!a[0];",
                    UnaryExpr("BANG", IndexExpr(VariableExpr("a"), LiteralExpr(<<"0">>))))
        /\ ParsedAs("a.b(c)[d];",
                    IndexExpr(CallExpr(MemberExpr(VariableExpr("a"), "b"),
                                       <<VariableExpr("c")>>),
                              VariableExpr("d")))
        /\ ParsedAs("f()(x).y[0];",
                    IndexExpr(MemberExpr(CallExpr(CallExpr(VariableExpr("f"), <<>>),
                                                  <<VariableExpr("x")>>), "y"),
                              LiteralExpr(<<"0">>)))
        /\ ParsedAs("a * (b + c);",
                    BinaryExpr(VariableExpr("a"), "MULTIPLY",
                               BinaryExpr(VariableExpr("b"), "PLUS", VariableExpr("c"))))
        /\ ParsedAs("a + b.c;",
                    BinaryExpr(VariableExpr("a"), "PLUS",
                               MemberExpr(VariableExpr("b"), "c")))
        /\ ParsedAs("a + f(b);",
                    BinaryExpr(VariableExpr("a"), "PLUS",
                               CallExpr(VariableExpr("f"), <<VariableExpr("b")>>)))

\* `1 + 2 * 3;` has been parsed to 1 + (2 * 3)
C28_Witness ==
    /\ status = "parsed"
    /\ lexer # <<>>
    /\ lexer.source_ = Chars("1 + 2 * 3;")
    /\ parser.statements =
           <<ExprStmt(BinaryExpr(LiteralExpr(<<"1">>), "PLUS",
                                 BinaryExpr(LiteralExpr(<<"2">>), "MULTIPLY",
                                            LiteralExpr(<<"3">>))))>>

\* ------------------------------------------------- assignment targets (ParseSpec)
\* C26: parse() never returns an expression statement that is an Assign node
\* whose target is anything other than a variable reference or a member
\* access: such a left-hand side (one that was written: a literal, a call, a
\* binary or an index expression) is a parse error.
C26_AssignTargetIsChecked ==
    status = "parsed" =>
        \A i \in DOMAIN parser.statements :
            (/\ parser.statements[i].k = "ExprStmt"
             /\ parser.statements[i].expression_.k = "Assign"
             /\ parser.statements[i].expression_.target_ # NoNode)
            => parser.statements[i].expression_.target_.k \in {"Variable", "Member"}

\* ------------------------------------------------- error recovery (ParseSpec)
\* the position of the statement boundary at or after the 0-based position
\* `from` of `tokens`: just after the first semicolon, or at the first
\* statement-starting keyword or the end-of-input token, whichever is first
IsBoundary(tokens, from, q) ==
    \/ tokens[q + 1].type = "EOF_TOKEN"
    \/ tokens[q + 1].type \in StatementStart
    \/ q > from /\ tokens[q].type = "SEMICOLON"
Boundary(tokens, from) ==
    CHOOSE q \in from..(Len(tokens) - 1) :
        /\ IsBoundary(tokens, from, q)
        /\ \A r \in from..(q - 1) : ~IsBoundary(tokens, from, r)

\* C27: when a top-level statement raises a parse error, parse() resumes at
\* the statement boundary at or after the token at which the error was
\* detected: immediately after the next semicolon or at the next
\* statement-starting keyword, that keyword not discarded even when it is the
\* token at which the error was detected.
C27_ResumesAtBoundary ==
    [][(/\ status = "parsing" /\ status' = "parsing"
        /\ Parse("statement", Parsing).thrown # NoThrow)
       => parser'.current_ = Boundary(parser.tokens_,
                                      Parse("statement", Parsing).current_)]_vars

\* ------------------------------------------------- braces (MainSpec)
\* main() has run the text to its end
Ran(text) == status = "returned" /\ lexer.source_ = Chars(text)
\* the statement  print(n);
PrintStmt(n) == ExprStmt(Call("print", <<IntLit(n)>>))
\* a branch holds the statements `stmts` written between its braces, as they
\* are or as one Block
IsBody(branch, stmts) == branch = stmts \/ branch = <<BlockStmt(stmts)>>

\* C22: `if (c) { A } else { B }` parses to one If node whose then-branch is A
\* and whose else-branch is B, a statement after the closing brace is a
\* sibling of the If, and the run prints what A alone prints when c is 0 and
\* what B alone prints when c is null; the bodies of while, for and
\* try/catch/finally end at their closing brace in the same way.
C22_BracesDelimitBodies ==
    /\ Ran("if (0) { print(1); } else { print(2); }") =>
         /\ Len(program) = 1
         /\ program[1].k = "If"
         /\ IsBody(program[1].thenBranch_, <<PrintStmt(1)>>)
         /\ IsBody(program[1].elseBranch_, <<PrintStmt(2)>>)
         /\ out = <<"1">>
    /\ Ran("if (null) { print(1); } else { print(2); }") =>
         /\ Len(program) = 1
         /\ out = <<"2">>
    /\ Ran("if (0) { print(1); } print(3);") =>
         /\ Len(program) = 2
         /\ IsBody(program[1].thenBranch_, <<PrintStmt(1)>>)
         /\ program[2] = PrintStmt(3)
         /\ out = <<"1", "3">>
    /\ Ran("if (null) { print(1); } print(3);") => out = <<"3">>
    /\ Ran("while (null) { print(1); } print(3);") =>
         /\ Len(program) = 2
         /\ out = <<"3">>
    /\ Ran("for (var i = 0; i < 2; i = i + 1) { print(i); } print(9);") =>
         /\ Len(program) = 2
         /\ out = <<"0", "1", "9">>
    /\ Ran("try { print(1); } catch (e) { print(2); } finally { print(3); } print(4);") =>
         /\ Len(program) = 2
         /\ out = <<"1", "3", "4">>

\* ------------------------------------------------- string literals (MainSpec)
\* C23: the String a double-quoted literal evaluates to is the characters
\* between its quotes, also for the empty literal and for one-character ones:
\* print shows it between quotes, a variable initialised with it holds it, and
\* "a" + "b" is the String ab.
C23_StringLiteralIsItsCharacters ==
    /\ Ran("print(\"hello\");") => out = <<"\"hello\"">>
    /\ Ran("print(\"a\" + \"b\");") => out = <<"\"ab\"">>
    /\ Ran("print(\"ab\");") => out = <<"\"ab\"">>
    /\ Ran("var s = \"a\"; print(s);") =>
         Global("s") = makeString("a") /\ out = <<"\"a\"">>
    /\ Ran("print(\"\"); print(1);") => out = <<"\"\"", "1">>
    /\ Ran("var t = \"a b\" + \"cd\"; print(t);") =>
         Global("t") = makeString("a bcd") /\ out = <<"\"a bcd\"">>

====
